---- MODULE Spec2Model ----
(***************************************************************************)
(* The conversation state machine of the Acme Dental booking agent         *)
(* (src/src/graph.py, driven by src/src/main.py).                          *)
(*                                                                         *)
(* Text is modelled as a sequence of one-character strings, so that        *)
(* substring tests, strip(), lower(), int() and the regular expressions    *)
(* of the source are computed and not assumed.  An optional value is       *)
(* None (the empty tuple) or Some(v) (the one-element tuple <<v>>).        *)
(***************************************************************************)
EXTENDS Integers, Sequences, FiniteSets, TLC

VARIABLES st, g, pc, calls, ran, faults, inputs

vars == <<st, g, pc, calls, ran, faults, inputs>>

(***************************************************************************)
(* Bounds of the model.                                                    *)
(***************************************************************************)
\* The number of user messages in a conversation.
MaxTurns == 4

\* The number of collaborator calls that fail in a conversation.
MaxFaults == 1

(***************************************************************************)
(* Optional values.                                                        *)
(***************************************************************************)
None == <<>>

Some(v) == <<v>>

\* Python truthiness of an optional string or list: not None and not empty.
Truthy(o) == o # None /\ o[1] # <<>>

\* Python's "a or b" on optional values.
OrElse(a, b) == IF Truthy(a) THEN a ELSE b

(***************************************************************************)
(* Text primitives.                                                        *)
(***************************************************************************)
UpperChars == <<"A","B","C","D","E","F","G","H","I","J","K","L","M",
                "N","O","P","Q","R","S","T","U","V","W","X","Y","Z">>

LowerChars == <<"a","b","c","d","e","f","g","h","i","j","k","l","m",
                "n","o","p","q","r","s","t","u","v","w","x","y","z">>

DigitChars == <<"0","1","2","3","4","5","6","7","8","9">>

InSeq(seq, c) == \E i \in 1..Len(seq) : seq[i] = c

IndexOf(seq, c) == CHOOSE i \in 1..Len(seq) : seq[i] = c

UpperSet == {UpperChars[i] : i \in 1..Len(UpperChars)}

LowerSet == {LowerChars[i] : i \in 1..Len(LowerChars)}

DigitSet == {DigitChars[i] : i \in 1..Len(DigitChars)}

IsUpper(c) == c \in UpperSet

IsLower(c) == c \in LowerSet

IsDigit(c) == c \in DigitSet

IsSpace(c) == c \in {" ", "\t", "\n"}

\* A word character of the re module: [A-Za-z0-9_].
IsWordChar(c) == c \in UpperSet \cup LowerSet \cup DigitSet \cup {"_"}

SetMin(S) == CHOOSE x \in S : \A y \in S : x <= y

SetMax(S) == CHOOSE x \in S : \A y \in S : x >= y

\* str.lower()
lower(s) ==
    IF s = <<>> THEN <<>>
    ELSE [i \in 1..Len(s) |->
            IF IsUpper(s[i]) THEN LowerChars[IndexOf(UpperChars, s[i])] ELSE s[i]]

\* str.upper()
upper(s) ==
    IF s = <<>> THEN <<>>
    ELSE [i \in 1..Len(s) |->
            IF IsLower(s[i]) THEN UpperChars[IndexOf(LowerChars, s[i])] ELSE s[i]]

\* str.strip()
strip(s) ==
    LET keep == {i \in 1..Len(s) : ~IsSpace(s[i])}
    IN  IF keep = {} THEN <<>> ELSE SubSeq(s, SetMin(keep), SetMax(keep))

\* The positions at which k occurs in s.
Occurrences(s, k) ==
    {i \in 1..(Len(s) - Len(k) + 1) : SubSeq(s, i, i + Len(k) - 1) = k}

\* Python's "k in s" on strings.
Contains(s, k) == Occurrences(s, k) # {}

\* any(keyword in s for keyword in keywords)
ContainsAny(s, keywords) == \E k \in keywords : Contains(s, k)

\* str.startswith
StartsWith(s, k) == Len(s) >= Len(k) /\ SubSeq(s, 1, Len(k)) = k

DigitVal(c) == IndexOf(DigitChars, c) - 1

RECURSIVE NumVal(_)
\* The value of a string of decimal digits.
NumVal(ds) ==
    IF ds = <<>> THEN 0
    ELSE NumVal(SubSeq(ds, 1, Len(ds) - 1)) * 10 + DigitVal(ds[Len(ds)])

\* int() of a stripped text t whose part after the sign is body.
IntOfBody(t, body) ==
    IF /\ body # <<>>
       /\ IsDigit(body[1])
       /\ IsDigit(body[Len(body)])
       /\ \A i \in 1..Len(body) : IsDigit(body[i]) \/ body[i] = "_"
       /\ \A i \in 1..(Len(body) - 1) : ~(body[i] = "_" /\ body[i + 1] = "_")
    THEN IF t[1] = "-" THEN Some(0 - NumVal(SelectSeq(body, IsDigit)))
         ELSE Some(NumVal(SelectSeq(body, IsDigit)))
    ELSE None

IntOfStripped(t) == IntOfBody(t, IF t # <<>> /\ t[1] \in {"+", "-"} THEN Tail(t) ELSE t)

\* Python's int(str): surrounding whitespace, an optional sign, decimal
\* digits with single underscores between them.  None stands for ValueError.
int(s) == IntOfStripped(strip(s))

RECURSIVE str(_)
\* Python's str(int) for a natural number.
str(n) ==
    IF n < 10 THEN <<DigitChars[n + 1]>>
    ELSE str(n \div 10) \o <<DigitChars[(n % 10) + 1]>>

(***************************************************************************)
(* The e-mail pattern of booking_collect_identity and lookup_events:       *)
(*   \b[A-Za-z0-9._%+-]+@[A-Za-z0-9.-]+\.[A-Z|a-z]{2,}\b                   *)
(***************************************************************************)
LocalChars == UpperSet \cup LowerSet \cup DigitSet \cup {".", "_", "%", "+", "-"}

DomainChars == UpperSet \cup LowerSet \cup DigitSet \cup {".", "-"}

TldChars == UpperSet \cup LowerSet \cup {"|"}

IsLocalChar(c) == c \in LocalChars

IsDomainChar(c) == c \in DomainChars

IsTldChar(c) == c \in TldChars

WordAt(s, p) == p >= 1 /\ p <= Len(s) /\ IsWordChar(s[p])

\* \b between positions p and p + 1 of s.
WordBoundary(s, p) == WordAt(s, p) # WordAt(s, p + 1)

\* The pairs <<k, e>> (position of the last dot, last position) of the ways the
\* pattern matches s from position i on.
EmailEnds(s, i) ==
    LET nonlocal == {j \in i..Len(s) : ~IsLocalChar(s[j])}
        j == IF nonlocal = {} THEN 0 ELSE SetMin(nonlocal)
    IN  IF ~WordBoundary(s, i - 1) \/ j <= i \/ s[j] # "@" THEN {}
        ELSE {ke \in ((j + 2)..Len(s)) \X ((j + 4)..Len(s)) :
                /\ s[ke[1]] = "."
                /\ \A d \in (j + 1)..(ke[1] - 1) : IsDomainChar(s[d])
                /\ ke[2] >= ke[1] + 2
                /\ \A d \in (ke[1] + 1)..ke[2] : IsTldChar(s[d])
                /\ WordBoundary(s, ke[2])}

\* The last position of the match among ends: the domain takes the last dot
\* it can, then the letters after it run as far as they can.
GreedyEnd(ends) ==
    SetMax({ke[2] : ke \in {x \in ends : x[1] = SetMax({ke[1] : ke \in ends})}})

FirstEmailFrom(s, starts) ==
    IF starts = {} THEN None
    ELSE Some(SubSeq(s, SetMin(starts), GreedyEnd(EmailEnds(s, SetMin(starts)))))

\* re.findall(email_pattern, s): None when the list is empty, else Some of its
\* first element (the leftmost match, each repetition greedy).
FirstEmail(s) == FirstEmailFrom(s, {i \in 1..Len(s) : EmailEnds(s, i) # {}})

\* text.split(sep)[0]: the text before the first occurrence of sep.
BeforeFirst(s, sep) ==
    IF Occurrences(s, sep) = {} THEN s
    ELSE SubSeq(s, 1, SetMin(Occurrences(s, sep)) - 1)

(***************************************************************************)
(* The conversation state (AgentState) and its messages.                   *)
(***************************************************************************)
HumanMessage(content) == [role |-> "human", content |-> content]

\* An assistant message; its text is kept as the sequence of its parts.
AIMessage(content) == [role |-> "ai", content |-> content]

\* The state main() creates before the first turn.
InitialState ==
    [messages             |-> <<>>,
     intent               |-> "NONE",
     flow                 |-> "IDLE",
     user_name            |-> None,
     user_email           |-> None,
     time_preference      |-> None,
     asked_for_preference |-> FALSE,
     selected_slot        |-> None,
     available_slots      |-> None,
     error                |-> None,
     lookup_email         |-> None,
     matched_events       |-> None,
     selected_event_uri   |-> None,
     confirmed            |-> FALSE]

\* next((m for m in reversed(messages) if isinstance(m, HumanMessage)), None):
\* the content of the latest user message, if any.
LastHuman(s) ==
    LET hs == {i \in 1..Len(s.messages) : s.messages[i].role = "human"}
    IN  IF hs = {} THEN None ELSE Some(s.messages[SetMax(hs)].content)

\* {**state, "messages": [AIMessage(content=...)]} without the reducer: the
\* new message takes the place of the list.
AddMessageReplacing(s, content) == [s EXCEPT !.messages = <<AIMessage(content)>>]

\* {**state, "messages": [AIMessage(content=...)]} under the add_messages
\* reducer: the new message is appended to the list.
AddMessage(s, content) == [s EXCEPT !.messages = Append(@, AIMessage(content))]

(***************************************************************************)
(* Entry node and intent classifier.                                       *)
(***************************************************************************)
cancel_keywords == {<<"c","a","n","c","e","l">>, <<"c","a","n","c","e","l","l","a","t","i","o","n">>, <<"d","e","l","e","t","e">>, <<"r","e","m","o","v","e">>}

book_keywords == {<<"b","o","o","k">>, <<"a","p","p","o","i","n","t","m","e","n","t">>, <<"s","c","h","e","d","u","l","e">>, <<"s","l","o","t">>,
                  <<"a","v","a","i","l","a","b","l","e">>, <<"c","h","e","c","k","u","p">>, <<"c","h","e","c","k","-","u","p">>}

reschedule_keywords == {<<"r","e","s","c","h","e","d","u","l","e">>, <<"c","h","a","n","g","e">>, <<"m","o","v","e">>}

\* The flow the entry node reads from a lower-cased message; "NONE" if no
\* keyword matches (new_flow of check_existing_flow).
EntryKeywordFlowSwapped(content_lower) ==
    IF ContainsAny(content_lower, cancel_keywords) THEN "CANCEL"
    ELSE IF ContainsAny(content_lower, book_keywords) THEN "BOOK"
    ELSE IF ContainsAny(content_lower, reschedule_keywords) THEN "RESCHEDULE"
    ELSE "NONE"

EntryKeywordFlow(content_lower) ==
    IF ContainsAny(content_lower, cancel_keywords) THEN "CANCEL"
    ELSE IF ContainsAny(content_lower, reschedule_keywords) THEN "RESCHEDULE"
    ELSE IF ContainsAny(content_lower, book_keywords) THEN "BOOK"
    ELSE "NONE"

\* A check_existing_flow that resets the work-set of the flow it leaves.
check_existing_flow_clearing(s) ==
    IF s.flow = "IDLE" \/ LastHuman(s) = None THEN s
    ELSE LET new_flow == EntryKeywordFlow(lower(LastHuman(s)[1]))
         IN  IF new_flow # "NONE" /\ new_flow # s.flow
             THEN [s EXCEPT !.flow = new_flow, !.intent = new_flow,
                            !.time_preference = None, !.asked_for_preference = FALSE,
                            !.available_slots = None, !.selected_slot = None,
                            !.lookup_email = None, !.matched_events = None,
                            !.selected_event_uri = None]
             ELSE s

check_existing_flow(s) ==
    IF s.flow = "IDLE" THEN s
    ELSE IF LastHuman(s) = None THEN s
    ELSE LET new_flow == EntryKeywordFlow(lower(LastHuman(s)[1]))
         IN  IF new_flow # "NONE" /\ new_flow # s.flow
             THEN [s EXCEPT !.flow = new_flow, !.intent = new_flow]
             ELSE s

\* The intent the classifier reads from a lower-cased message without asking
\* the classification service; "NONE" if no keyword matches.
RouterKeywordIntent(content_lower) ==
    IF ContainsAny(content_lower, cancel_keywords) THEN "CANCEL"
    ELSE IF ContainsAny(content_lower, reschedule_keywords) THEN "RESCHEDULE"
    ELSE IF ContainsAny(content_lower, book_keywords) THEN "BOOK"
    ELSE "NONE"

\* The labels the classifier accepts from the classification service.
IntentLabels ==
    {<<<<"B","O","O","K">>, "BOOK">>, <<<<"C","A","N","C","E","L">>, "CANCEL">>, <<<<"R","E","S","C","H","E","D","U","L","E">>, "RESCHEDULE">>,
     <<<<"F","A","Q">>, "FAQ">>, <<<<"G","E","N","E","R","A","L">>, "GENERAL">>}

\* intent = response.content.strip().upper(), coerced to GENERAL when it is
\* not one of the five labels.
CoerceIntent(response) ==
    LET label == upper(strip(response))
    IN  IF \E p \in IntentLabels : p[1] = label
        THEN (CHOOSE p \in IntentLabels : p[1] = label)[2]
        ELSE "GENERAL"

\* Whether router gets as far as get_llm (no keyword matched).
RouterUsesLLM(s) ==
    IF LastHuman(s) = None THEN TRUE
    ELSE RouterKeywordIntent(lower(LastHuman(s)[1])) = "NONE"

\* A router that lets any service output through as the intent.
router_uncoerced(s, response) ==
    IF ~RouterUsesLLM(s)
    THEN [s EXCEPT !.intent = RouterKeywordIntent(lower(LastHuman(s)[1])),
                   !.flow = RouterKeywordIntent(lower(LastHuman(s)[1]))]
    ELSE IF LastHuman(s) = None THEN [s EXCEPT !.intent = "GENERAL"]
    ELSE LET label == upper(strip(response))
             intent == IF \E p \in IntentLabels : p[1] = label
                       THEN (CHOOSE p \in IntentLabels : p[1] = label)[2]
                       ELSE "OTHER"
         IN  [s EXCEPT !.intent = intent,
                       !.flow = IF intent \in {"BOOK", "CANCEL", "RESCHEDULE"}
                                THEN intent ELSE "IDLE"]

\* router, given the text the classification service answers with.
router(s, response) ==
    IF ~RouterUsesLLM(s)
    THEN LET intent == RouterKeywordIntent(lower(LastHuman(s)[1]))
         IN  [s EXCEPT !.intent = intent, !.flow = intent]
    ELSE IF LastHuman(s) = None THEN [s EXCEPT !.intent = "GENERAL"]
    ELSE LET intent == CoerceIntent(response)
         IN  [s EXCEPT !.intent = intent,
                       !.flow = IF intent \in {"BOOK", "CANCEL", "RESCHEDULE"}
                                THEN intent ELSE "IDLE"]

\* The keyword check of router in src/nodes/router.py: as in graph.py, and a
\* message that is exactly yes, y, sure or yeah is a booking request too.
NodesRouterKeywordIntent(content_lower) ==
    IF ContainsAny(content_lower, cancel_keywords) THEN "CANCEL"
    ELSE IF ContainsAny(content_lower, reschedule_keywords) THEN "RESCHEDULE"
    ELSE IF ContainsAny(content_lower, book_keywords)
            \/ content_lower \in {<<"y","e","s">>, <<"y">>, <<"s","u","r","e">>, <<"y","e","a","h">>}
    THEN "BOOK"
    ELSE "NONE"

\* router of src/nodes/router.py, given what the classification service
\* answers.
nodes_router(s, response) ==
    IF LastHuman(s) = None THEN [s EXCEPT !.intent = "GENERAL"]
    ELSE IF NodesRouterKeywordIntent(lower(LastHuman(s)[1])) # "NONE"
    THEN [s EXCEPT !.intent = NodesRouterKeywordIntent(lower(LastHuman(s)[1])),
                   !.flow = NodesRouterKeywordIntent(lower(LastHuman(s)[1]))]
    ELSE [s EXCEPT !.intent = CoerceIntent(response),
                   !.flow = IF CoerceIntent(response) \in {"BOOK", "CANCEL", "RESCHEDULE"}
                            THEN CoerceIntent(response) ELSE "IDLE"]

(***************************************************************************)
(* Identity extraction.                                                    *)
(***************************************************************************)
\* regex_name of booking_collect_identity: the text before the e-mail, if it
\* is longer than two characters.
RegexName(text, regex_email) ==
    IF regex_email = None THEN None
    ELSE IF Len(strip(BeforeFirst(text, regex_email[1]))) > 2
    THEN Some(strip(BeforeFirst(text, regex_email[1])))
    ELSE None

\* Whether booking_collect_identity asks the extraction service.
IdentityUsesLLM(s) ==
    ~(Truthy(s.user_name) /\ Truthy(s.user_email)) /\ LastHuman(s) # None

\* An update that stores whatever was found, found or not.
WithIdentityOverwriting(s, name, email) ==
    [s EXCEPT !.user_name = name, !.user_email = email]

\* {**state, **updates}: a name or an e-mail is stored only if one was found.
WithIdentity(s, name, email) ==
    [s EXCEPT !.user_name  = IF Truthy(name) THEN name ELSE @,
              !.user_email = IF Truthy(email) THEN email ELSE @]

\* The service's values are preferred; the regex results are the fallback, and
\* all there is when the answer is not JSON.
MergeIdentity(s, response, regex_name, regex_email) ==
    IF response.json
    THEN WithIdentity(s, OrElse(response.name, regex_name),
                      OrElse(response.email, regex_email))
    ELSE WithIdentity(s, regex_name, regex_email)

IdentityFrom(s, response, text, regex_email) ==
    MergeIdentity(s, response, RegexName(text, regex_email), regex_email)

\* booking_collect_identity, given what the extraction service answers:
\* [json |-> FALSE] for an answer json.loads rejects, else the name and the
\* e-mail of the parsed object.
booking_collect_identity(s, response) ==
    IF ~IdentityUsesLLM(s) THEN s
    ELSE IdentityFrom(s, response, LastHuman(s)[1], FirstEmail(LastHuman(s)[1]))

\* A preference prompt that does not record that it was asked.
ask_for_time_preference_unmarked(s) == AddMessage(s, <<"ask_for_time_preference">>)

ask_for_time_preference(s) ==
    [AddMessage(s, <<"ask_for_time_preference">>) EXCEPT !.asked_for_preference = TRUE]

ask_for_name_email(s) ==
    AddMessage(s, <<"ask_for_name_email">>
                  \o (IF ~Truthy(s.user_name) THEN <<"full name">> ELSE <<>>)
                  \o (IF ~Truthy(s.user_email) THEN <<"email address">> ELSE <<>>))

(***************************************************************************)
(* Time preference parser.                                                 *)
(***************************************************************************)
RECURSIVE Join(_, _)
\* sep.join(parts)
Join(parts, sep) ==
    IF parts = <<>> THEN <<>>
    ELSE IF Len(parts) = 1 THEN parts[1]
    ELSE parts[1] \o sep \o Join(Tail(parts), sep)

RECURSIVE Split(_, _)
\* s.split(c) for a one-character separator c.
Split(s, c) ==
    LET at == {i \in 1..Len(s) : s[i] = c}
    IN  IF at = {} THEN <<s>>
        ELSE <<SubSeq(s, 1, SetMin(at) - 1)>> \o Split(SubSeq(s, SetMin(at) + 1, Len(s)), c)

\* days_map, in the order of the dictionary.
days_map ==
    << <<<<"m","o","n","d","a","y">>,    {<<"m","o","n","d","a","y">>, <<"m","o","n">>}>>,
       <<<<"t","u","e","s","d","a","y">>,   {<<"t","u","e","s","d","a","y">>, <<"t","u","e","s">>, <<"t","u","e">>}>>,
       <<<<"w","e","d","n","e","s","d","a","y">>, {<<"w","e","d","n","e","s","d","a","y">>, <<"w","e","d">>}>>,
       <<<<"t","h","u","r","s","d","a","y">>,  {<<"t","h","u","r","s","d","a","y">>, <<"t","h","u","r","s">>, <<"t","h","u">>}>>,
       <<<<"f","r","i","d","a","y">>,    {<<"f","r","i","d","a","y">>, <<"f","r","i">>}>>,
       <<<<"s","a","t","u","r","d","a","y">>,  {<<"s","a","t","u","r","d","a","y">>, <<"s","a","t">>}>>,
       <<<<"s","u","n","d","a","y">>,    {<<"s","u","n","d","a","y">>, <<"s","u","n">>}>> >>

\* found_days: the days mentioned, in the order of days_map.
FoundDays(user_input) ==
    LET hit == SelectSeq(days_map, LAMBDA e : ContainsAny(user_input, e[2]))
    IN  [i \in 1..Len(hit) |-> hit[i][1]]

CharAt(s, p) == IF p >= 1 /\ p <= Len(s) THEN s[p] ELSE ""

\* time_matches[0] of re.findall(r"(\d{1,2})(?::(\d{2}))?\s*(am|pm)?", s):
\* None when no digit occurs, else the hour digits and the am/pm suffix.
FirstTimeMatch(s) ==
    LET ds == {i \in 1..Len(s) : IsDigit(s[i])}
    IN  IF ds = {} THEN None
        ELSE LET p  == SetMin(ds)
                 q  == IF IsDigit(CharAt(s, p + 1)) THEN p + 2 ELSE p + 1
                 r  == IF CharAt(s, q) = ":" /\ IsDigit(CharAt(s, q + 1))
                          /\ IsDigit(CharAt(s, q + 2))
                       THEN q + 3 ELSE q
                 nonsp == {i \in r..Len(s) : ~IsSpace(s[i])}
                 t  == IF nonsp = {} THEN Len(s) + 1 ELSE SetMin(nonsp)
                 suffix == <<CharAt(s, t), CharAt(s, t + 1)>>
             IN  Some([hour_str |-> SubSeq(s, p, q - 1),
                       period   |-> IF suffix \in {<<"a","m">>, <<"p","m">>} THEN suffix ELSE <<>>])

\* specific_hour: the hour of the first match, converted to 24-hour.
To24Hour(hour, period) ==
    IF period = <<"p","m">> /\ hour # 12 THEN hour + 12
    ELSE IF period = <<"a","m">> /\ hour = 12 THEN 0
    ELSE hour

SpecificHourOf(time_match) ==
    IF time_match = None THEN None
    ELSE Some(To24Hour(NumVal(time_match[1].hour_str), time_match[1].period))

SpecificHour(user_input) == SpecificHourOf(FirstTimeMatch(user_input))

\* general_time: looked for only when "not specific_hour" (None or hour 0).
GeneralTime(user_input, specific_hour) ==
    IF specific_hour # None /\ specific_hour # Some(0) THEN None
    ELSE IF Contains(user_input, <<"m","o","r","n","i","n","g">>) \/ Contains(user_input, <<"a","m">>)
         THEN Some(<<"m","o","r","n","i","n","g">>)
    ELSE IF Contains(user_input, <<"a","f","t","e","r","n","o","o","n">>) \/ Contains(user_input, <<"p","m">>)
         THEN Some(<<"a","f","t","e","r","n","o","o","n">>)
    ELSE IF Contains(user_input, <<"e","v","e","n","i","n","g">>) THEN Some(<<"e","v","e","n","i","n","g">>)
    ELSE None

\* pref_parts: the days joined by commas, then the hour or the general time.
PrefParts(found_days, specific_hour, general_time) ==
    (IF found_days # <<>> THEN <<Join(found_days, <<",">>)>> ELSE <<>>)
    \o (IF specific_hour # None THEN <<<<"h","o","u","r",":">> \o str(specific_hour[1])>>
        ELSE IF general_time # None THEN <<general_time[1]>>
        ELSE <<>>)

\* "|".join(pref_parts) if pref_parts else "any"
JoinParts(pref_parts) ==
    IF pref_parts # <<>> THEN Join(pref_parts, <<"|">>) ELSE <<"a","n","y">>

Preference(user_input, found_days, specific_hour, general_time) ==
    IF ContainsAny(user_input, {<<"a","n","y">>, <<"a","n","y","t","i","m","e">>, <<"f","l","e","x","i","b","l","e">>}) THEN <<"a","n","y">>
    ELSE IF /\ found_days = <<>>
            /\ specific_hour \in {None, Some(0)}
            /\ general_time = None
         THEN <<"a","n","y">>
    ELSE JoinParts(PrefParts(found_days, specific_hour, general_time))

PreferenceWith(user_input, specific_hour) ==
    Preference(user_input, FoundDays(user_input), specific_hour,
               GeneralTime(user_input, specific_hour))

\* A parser that does not lower-case the reply.
ParsePreferenceCaseSensitive(content) ==
    PreferenceWith(strip(content), SpecificHour(strip(content)))

\* The preference string parse_time_preference builds from the user's text.
ParsePreference(content) ==
    PreferenceWith(lower(strip(content)), SpecificHour(lower(strip(content))))

parse_time_preference(s) ==
    IF LastHuman(s) = None THEN s
    ELSE [s EXCEPT !.time_preference = Some(ParsePreference(LastHuman(s)[1]))]

(***************************************************************************)
(* Availability matcher.                                                   *)
(***************************************************************************)
AllDigits(s) == s # <<>> /\ \A i \in 1..Len(s) : IsDigit(s[i])

IsLeap(y) == (y % 4 = 0 /\ y % 100 # 0) \/ y % 400 = 0

DaysInMonth(y, m) ==
    IF m = 2 THEN (IF IsLeap(y) THEN 29 ELSE 28)
    ELSE IF m \in {4, 6, 9, 11} THEN 30 ELSE 31

\* datetime.fromisoformat(start_time.replace("Z", "+00:00")) for a timestamp
\* written YYYY-MM-DDTHH:MM:SSZ, optionally with a six-digit fraction; None
\* stands for the exception any other text raises.
ParseIso(t) ==
    LET shape == /\ Len(t) \in {20, 27}
                 /\ t[5] = "-" /\ t[8] = "-" /\ t[11] = "T" /\ t[14] = ":" /\ t[17] = ":"
                 /\ t[Len(t)] = "Z"
                 /\ AllDigits(SubSeq(t, 1, 4)) /\ AllDigits(SubSeq(t, 6, 7))
                 /\ AllDigits(SubSeq(t, 9, 10)) /\ AllDigits(SubSeq(t, 12, 13))
                 /\ AllDigits(SubSeq(t, 15, 16)) /\ AllDigits(SubSeq(t, 18, 19))
                 /\ (Len(t) = 27 => t[20] = "." /\ AllDigits(SubSeq(t, 21, 26)))
        y  == NumVal(SubSeq(t, 1, 4))
        mo == NumVal(SubSeq(t, 6, 7))
        d  == NumVal(SubSeq(t, 9, 10))
        h  == NumVal(SubSeq(t, 12, 13))
        mi == NumVal(SubSeq(t, 15, 16))
        se == NumVal(SubSeq(t, 18, 19))
    IN  IF shape /\ y >= 1 /\ mo \in 1..12 /\ d >= 1 /\ d <= DaysInMonth(y, mo)
           /\ h <= 23 /\ mi <= 59 /\ se <= 59
        THEN Some([year |-> y, month |-> mo, day |-> d, hour |-> h])
        ELSE None

MonthOffsets == <<0, 3, 2, 5, 0, 3, 5, 1, 4, 6, 2, 4>>

WeekdayNames == <<<<"s","u","n","d","a","y">>, <<"m","o","n","d","a","y">>, <<"t","u","e","s","d","a","y">>, <<"w","e","d","n","e","s","d","a","y">>,
                  <<"t","h","u","r","s","d","a","y">>, <<"f","r","i","d","a","y">>, <<"s","a","t","u","r","d","a","y">>>>

\* dt.strftime("%A").lower()
DayName(dt) ==
    LET y == IF dt.month < 3 THEN dt.year - 1 ELSE dt.year
        w == (y + (y \div 4) - (y \div 100) + (y \div 400)
                + MonthOffsets[dt.month] + dt.day) % 7
    IN  WeekdayNames[w + 1]

\* The parts of a preference string other than "any": requested_days, whether
\* the second part is an "hour:" one, specific_hour (None also stands for the
\* ValueError of int()), general_time.
PartsOf(parts) ==
    [requested_days |-> IF parts[1] # <<>> THEN Split(parts[1], ",") ELSE <<>>,
     hour_form      |-> Len(parts) > 1 /\ StartsWith(parts[2], <<"h","o","u","r",":">>),
     specific_hour  |-> IF Len(parts) > 1 /\ StartsWith(parts[2], <<"h","o","u","r",":">>)
                        THEN int(Split(parts[2], ":")[2]) ELSE None,
     general_time   |-> IF Len(parts) > 1 /\ ~StartsWith(parts[2], <<"h","o","u","r",":">>)
                        THEN Some(parts[2]) ELSE None]

PreferenceParts(preference) == PartsOf(Split(preference, "|"))

\* The list the loop body appends a slot to, dt being its parsed start time
\* (None when parsing raises and the loop continues).
MatchKind(dt, pp) ==
    IF dt = None THEN "none"
    ELSE IF ~(pp.requested_days = <<>> \/ InSeq(pp.requested_days, DayName(dt[1])))
    THEN "none"
    ELSE IF pp.specific_hour # None
    THEN IF dt[1].hour = pp.specific_hour[1] THEN "exact"
         ELSE IF pp.specific_hour[1] < 12 /\ 6 <= dt[1].hour /\ dt[1].hour < 12
         THEN "fallback"
         ELSE IF /\ 12 <= pp.specific_hour[1] /\ pp.specific_hour[1] < 17
                 /\ 12 <= dt[1].hour /\ dt[1].hour < 17
         THEN "fallback"
         ELSE "none"
    ELSE IF Truthy(pp.general_time)
    THEN IF \/ pp.general_time[1] = <<"m","o","r","n","i","n","g">> /\ 6 <= dt[1].hour /\ dt[1].hour < 12
            \/ pp.general_time[1] = <<"a","f","t","e","r","n","o","o","n">> /\ 12 <= dt[1].hour /\ dt[1].hour < 17
            \/ pp.general_time[1] = <<"e","v","e","n","i","n","g">> /\ 17 <= dt[1].hour /\ dt[1].hour < 21
         THEN "exact" ELSE "none"
    ELSE "exact"

\* exact_matches (kind "exact") and fallback_matches (kind "fallback").
Matches(slots, pp, kind) ==
    SelectSeq(slots, LAMBDA slot : MatchKind(ParseIso(slot.start_time), pp) = kind)

\* slots[:10]
DisplayLimit == 10

FirstN(seq, n) == SubSeq(seq, 1, IF Len(seq) < n THEN Len(seq) ELSE n)

\* The state returned with the slots shown under a header of the given kind.
WithSlots(s, display_slots, header) ==
    [AddMessage(s, <<"slots", header, str(Len(display_slots))>>)
        EXCEPT !.available_slots = Some(display_slots), !.error = None]

\* A decision that never shows the fallback bucket.
ShowMatchesWithoutFallback(s, slots, exact_matches, fallback_matches) ==
    IF exact_matches # <<>>
    THEN [s EXCEPT !.messages = Append(@, AIMessage(<<"slots", "exact",
                                       str(Len(SubSeq(exact_matches, 1,
                                           IF Len(exact_matches) < 10 THEN Len(exact_matches) ELSE 10)))>>)),
                   !.available_slots = Some(SubSeq(exact_matches, 1,
                                           IF Len(exact_matches) < 10 THEN Len(exact_matches) ELSE 10)),
                   !.error = None]
    ELSE [s EXCEPT !.messages = Append(@, AIMessage(<<"slots", "no match",
                                       str(Len(SubSeq(slots, 1,
                                           IF Len(slots) < 10 THEN Len(slots) ELSE 10)))>>)),
                   !.available_slots = Some(SubSeq(slots, 1,
                                           IF Len(slots) < 10 THEN Len(slots) ELSE 10)),
                   !.error = None]

\* "Decide what to show".
ShowMatches(s, slots, exact_matches, fallback_matches) ==
    IF exact_matches # <<>> THEN WithSlots(s, FirstN(exact_matches, DisplayLimit), "exact")
    ELSE IF fallback_matches # <<>>
    THEN WithSlots(s, FirstN(fallback_matches, DisplayLimit), "fallback")
    ELSE WithSlots(s, FirstN(slots, DisplayLimit), "no match")

FilterSlots(s, slots, pp) ==
    IF pp.hour_form /\ pp.specific_hour = None
    THEN [s EXCEPT !.error = Some(<<"ERROR: ", "bad preference">>)]
    ELSE ShowMatches(s, slots, Matches(slots, pp, "exact"), Matches(slots, pp, "fallback"))

\* booking_check_availability, given what the scheduling service does:
\* [raise |-> TRUE] when a call fails, else the slots it offers.  The result is
\* the new state and the calls made.
booking_check_availability(s, service) ==
    [calls |-> <<[op |-> "listAvailableSlots"]>>,
     state |->
        IF service.raise THEN [s EXCEPT !.error = Some(<<"ERROR: ", "service failure">>)]
        ELSE IF service.slots = <<>>
        THEN [s EXCEPT !.error = Some(<<"No available slots found.">>)]
        ELSE IF s.time_preference = None
        THEN [s EXCEPT !.error = Some(<<"ERROR: ", "bad preference">>)]
        ELSE IF s.time_preference[1] = <<"a","n","y">>
        THEN WithSlots(s, FirstN(service.slots, DisplayLimit), "next available")
        ELSE FilterSlots(s, service.slots, PreferenceParts(s.time_preference[1]))]

(***************************************************************************)
(* Slot selection and booking.                                             *)
(***************************************************************************)
\* A slot selection that takes a number beyond the list as the last slot and a
\* number below 1 as the first.
PickSlotClamped(s, slot_num) ==
    IF slot_num = None THEN [s EXCEPT !.available_slots = None]
    ELSE IF slot_num[1] < 1
    THEN [s EXCEPT !.selected_slot = Some(s.available_slots[1][1].start_time)]
    ELSE IF slot_num[1] <= Len(s.available_slots[1])
    THEN [s EXCEPT !.selected_slot = Some(s.available_slots[1][slot_num[1]].start_time)]
    ELSE [s EXCEPT !.selected_slot =
                      Some(s.available_slots[1][Len(s.available_slots[1])].start_time)]

\* A slot selection that counts the shown slots from zero.
PickSlotFromZero(s, slot_num) ==
    IF slot_num = None THEN [s EXCEPT !.available_slots = None]
    ELSE IF 0 <= slot_num[1] /\ slot_num[1] < Len(s.available_slots[1])
    THEN [s EXCEPT !.selected_slot = Some(s.available_slots[1][slot_num[1] + 1].start_time)]
    ELSE AddMessage(s, <<"choose a number between 1 and", str(Len(s.available_slots[1]))>>)

\* parse_slot_selection once int(user_input) is known (None: ValueError).
PickSlot(s, slot_num) ==
    IF slot_num = None THEN [s EXCEPT !.available_slots = None]
    ELSE IF 1 <= slot_num[1] /\ slot_num[1] <= Len(s.available_slots[1])
    THEN [s EXCEPT !.selected_slot = Some(s.available_slots[1][slot_num[1]].start_time)]
    ELSE AddMessage(s, <<"choose a number between 1 and", str(Len(s.available_slots[1]))>>)

parse_slot_selection(s) ==
    IF LastHuman(s) = None \/ ~Truthy(s.available_slots) THEN s
    ELSE PickSlot(s, int(strip(LastHuman(s)[1])))

\* Whether booking_create has what it needs to call the scheduling service.
HasBookingPreconditions(s) ==
    Truthy(s.selected_slot) /\ Truthy(s.user_name) /\ Truthy(s.user_email)

\* Whether booking_create goes on to cancel the old appointment.
IsRescheduleOfOld(s) == s.flow = "RESCHEDULE" /\ Truthy(s.selected_event_uri)

\* A booking_create that books without checking what it needs.
booking_create_unchecked(s, service) ==
    [state |-> [AddMessage(s, <<"confirmed">>) EXCEPT !.flow = "IDLE", !.intent = "NONE",
                    !.selected_slot = None, !.available_slots = None,
                    !.time_preference = None, !.asked_for_preference = FALSE,
                    !.error = None, !.matched_events = None, !.selected_event_uri = None],
     calls |-> <<[op |-> "createAppointment", start_time |-> s.selected_slot,
                  name |-> s.user_name, email |-> s.user_email]>>]

\* A booking_create that forgets to reset the shown slots and the preference.
booking_create_keeping(s, service) ==
    [state |-> [AddMessage(s, <<"confirmed">>) EXCEPT !.flow = "IDLE", !.intent = "NONE",
                    !.selected_slot = None, !.error = None,
                    !.matched_events = None, !.selected_event_uri = None],
     calls |-> <<[op |-> "createAppointment", start_time |-> s.selected_slot,
                  name |-> s.user_name, email |-> s.user_email]>>]

\* A booking_create for which a failed cancellation of the old appointment
\* fails the whole operation.
booking_create_strict(s, service) ==
    IF IsRescheduleOfOld(s) /\ service.cancel = "raise"
    THEN [state |-> [s EXCEPT !.error = Some(<<"ERROR: ", "failed to cancel the old one">>)],
          calls |-> <<[op |-> "createAppointment", start_time |-> s.selected_slot,
                       name |-> s.user_name, email |-> s.user_email],
                      [op |-> "cancelEvent", uri |-> s.selected_event_uri]>>]
    ELSE [state |-> [AddMessage(s, <<"confirmed">>) EXCEPT !.flow = "IDLE", !.intent = "NONE",
                        !.selected_slot = None, !.available_slots = None,
                        !.time_preference = None, !.asked_for_preference = FALSE,
                        !.error = None, !.matched_events = None, !.selected_event_uri = None],
          calls |-> <<[op |-> "createAppointment", start_time |-> s.selected_slot,
                       name |-> s.user_name, email |-> s.user_email]>>]

\* A booking_create that cancels the old appointment before it creates the
\* new one.
booking_create_cancel_first(s, service) ==
    IF IsRescheduleOfOld(s)
    THEN [state |-> IF service.create = "ok"
                    THEN [AddMessage(s, <<"confirmed", "previous appointment cancelled">>)
                             EXCEPT !.flow = "IDLE", !.intent = "NONE",
                                    !.selected_slot = None, !.available_slots = None,
                                    !.time_preference = None, !.asked_for_preference = FALSE,
                                    !.error = None, !.matched_events = None,
                                    !.selected_event_uri = None]
                    ELSE [s EXCEPT !.error = Some(<<"ERROR: ", "Failed to create booking">>)],
          calls |-> <<[op |-> "cancelEvent", uri |-> s.selected_event_uri],
                      [op |-> "createAppointment", start_time |-> s.selected_slot,
                       name |-> s.user_name, email |-> s.user_email]>>]
    ELSE [state |-> [AddMessage(s, <<"confirmed">>) EXCEPT !.flow = "IDLE", !.intent = "NONE",
                        !.selected_slot = None, !.available_slots = None,
                        !.time_preference = None, !.asked_for_preference = FALSE,
                        !.error = None, !.matched_events = None, !.selected_event_uri = None],
          calls |-> <<[op |-> "createAppointment", start_time |-> s.selected_slot,
                       name |-> s.user_name, email |-> s.user_email]>>]

\* booking_create, given what the scheduling service does: create is "ok",
\* "error" (the booking tool answers ERROR ...) or "raise"; cancel is "ok" or
\* "raise".  The result is the new state and the calls made.
booking_create(s, service) ==
    IF ~HasBookingPreconditions(s)
    THEN [state |-> [s EXCEPT !.error = Some(<<"Missing required information for booking">>)],
          calls |-> <<>>]
    ELSE LET create == [op |-> "createAppointment", start_time |-> s.selected_slot,
                        name |-> s.user_name, email |-> s.user_email]
             cancel == [op |-> "cancelEvent", uri |-> s.selected_event_uri]
         IN  IF service.create = "error"
             THEN [state |-> [s EXCEPT !.error = Some(<<"ERROR: ", "Failed to create booking">>)],
                   calls |-> <<create>>]
             ELSE IF service.create = "raise"
             THEN [state |-> [s EXCEPT !.error = Some(<<"ERROR: ", "tool failure">>)],
                   calls |-> <<create>>]
             ELSE [state |->
                      [AddMessage(s, <<"confirmed">>
                                     \o (IF ~IsRescheduleOfOld(s) THEN <<>>
                                         ELSE IF service.cancel = "ok"
                                         THEN <<"previous appointment cancelled">>
                                         ELSE <<"warning: failed to cancel the old one">>))
                         EXCEPT !.flow = "IDLE", !.intent = "NONE",
                                !.selected_slot = None, !.available_slots = None,
                                !.time_preference = None, !.asked_for_preference = FALSE,
                                !.error = None, !.matched_events = None,
                                !.selected_event_uri = None],
                   calls |-> IF IsRescheduleOfOld(s) THEN <<create, cancel>> ELSE <<create>>]

confirm_booking(s) == s

(***************************************************************************)
(* Cancel / reschedule: lookup, selection, confirmation.                   *)
(***************************************************************************)
\* new_email of lookup_events: the first e-mail address in the latest message.
NewEmail(s) == IF LastHuman(s) = None THEN None ELSE FirstEmail(LastHuman(s)[1])

\* A resolution of the e-mail that prefers the stored lookup_email to the
\* address in the latest message.
LookupEmailStoredFirst(s) == OrElse(s.lookup_email, OrElse(NewEmail(s), s.user_email))

\* The e-mail lookup_events queries: latest message, else stored lookup_email,
\* else user_email; None if none of them is there.
LookupEmail(s) == OrElse(NewEmail(s), OrElse(s.lookup_email, s.user_email))

\* What lookup_events returns when the service lists at least one booking.
FoundEvents(s, email, new_email, bookings) ==
    [AddMessage(s, IF Len(bookings) = 1
                   THEN <<"is this the one",
                          IF s.flow = "CANCEL" THEN "cancel" ELSE "reschedule">>
                   ELSE <<"which one",
                          IF s.flow = "CANCEL" THEN "cancel" ELSE "reschedule",
                          str(Len(bookings))>>)
        EXCEPT !.lookup_email = IF Truthy(new_email) THEN None ELSE email,
               !.matched_events = Some(bookings),
               !.user_email = email,
               !.selected_event_uri = None]

\* A lookup that gives the flow up when it has no e-mail to query.
LookupWithAbandoning(s, service, email, new_email) ==
    IF ~Truthy(email)
    THEN [state |-> IF LastHuman(s) = None THEN s
                    ELSE [AddMessage(s, <<"please provide your email address",
                                          IF s.flow = "RESCHEDULE" THEN "reschedule"
                                          ELSE "cancel">>)
                             EXCEPT !.flow = "IDLE", !.intent = "NONE"],
          calls |-> <<>>]
    ELSE [calls |-> <<[op |-> "listScheduledEvents", email |-> email]>>,
          state |->
             IF service.raise
             THEN [AddMessage(s, <<"Error looking up appointments: ">> \o service.text)
                      EXCEPT !.error = Some(service.text)]
             ELSE IF service.bookings = <<>>
             THEN [AddMessage(s, <<"couldn't find any upcoming appointments">>)
                      EXCEPT !.lookup_email = IF Truthy(new_email) THEN None ELSE email]
             ELSE FoundEvents(s, email, new_email, service.bookings)]

\* lookup_events once the e-mail to query is known.
LookupWith(s, service, email, new_email) ==
    IF ~Truthy(email)
    THEN [state |-> IF LastHuman(s) = None THEN s
                    ELSE AddMessage(s, <<"please provide your email address",
                                         IF s.flow = "RESCHEDULE" THEN "reschedule"
                                         ELSE "cancel">>),
          calls |-> <<>>]
    ELSE [calls |-> <<[op |-> "listScheduledEvents", email |-> email]>>,
          state |->
             IF service.raise
             THEN [AddMessage(s, <<"Error looking up appointments: ">> \o service.text)
                      EXCEPT !.error = Some(service.text)]
             ELSE IF service.bookings = <<>>
             THEN [AddMessage(s, <<"couldn't find any upcoming appointments">>)
                      EXCEPT !.lookup_email = IF Truthy(new_email) THEN None ELSE email]
             ELSE FoundEvents(s, email, new_email, service.bookings)]

\* lookup_events, given what the scheduling service does: [raise |-> TRUE]
\* with the exception's text, else the bookings it lists.  The result is the
\* new state and the calls made.
lookup_events(s, service) == LookupWith(s, service, LookupEmail(s), NewEmail(s))

\* The replies select_event takes as a yes when there is one candidate.
SelectYes == {<<"y","e","s">>, <<"y">>, <<"s","u","r","e">>, <<"c","o","r","r","e","c","t">>}

\* The replies confirm_action takes as a yes.
ConfirmYes == {<<"y","e","s">>, <<"y">>, <<"c","o","n","f","i","r","m">>, <<"s","u","r","e">>}

\* bookings[selection - 1] when the number is in range; selection is None when
\* int() raises.
PickNumber(bookings, selection) ==
    IF selection # None /\ 1 <= selection[1] /\ selection[1] <= Len(bookings)
    THEN Some(bookings[selection[1]])
    ELSE None

\* A selection that takes a yes for the first of several candidates too.
SelectedBookingLenient(bookings, response) ==
    IF response \in {<<"y","e","s">>, <<"y">>, <<"s","u","r","e">>, <<"c","o","r","r","e","c","t">>}
    THEN Some(bookings[1])
    ELSE IF int(response) # None /\ 1 <= int(response)[1] /\ int(response)[1] <= Len(bookings)
    THEN Some(bookings[int(response)[1]])
    ELSE None

\* selected_booking of select_event: None when the reply selects nothing.
SelectedBooking(bookings, response) ==
    IF Len(bookings) = 1
    THEN (IF response \in SelectYes THEN Some(bookings[1]) ELSE None)
    ELSE PickNumber(bookings, int(response))

\* A decline of the single candidate that ends the flow and keeps the intent.
NothingSelectedKeepingIntent(s, bookings, selection) ==
    IF Len(bookings) = 1
    THEN [AddMessage(s, <<"okay, let me know">>) EXCEPT !.flow = "IDLE"]
    ELSE IF selection # None
    THEN AddMessage(s, <<"choose a number between 1 and", str(Len(bookings))>>)
    ELSE AddMessage(s, <<"reply with a number", str(Len(bookings))>>)

\* What select_event returns for a reply that selects nothing.
NothingSelected(s, bookings, selection) ==
    IF Len(bookings) = 1
    THEN [AddMessage(s, <<"okay, let me know">>) EXCEPT !.intent = "NONE", !.flow = "IDLE"]
    ELSE IF selection # None
    THEN AddMessage(s, <<"choose a number between 1 and", str(Len(bookings))>>)
    ELSE AddMessage(s, <<"reply with a number", str(Len(bookings))>>)

\* A selection that asks for the confirmation without keeping the URI.
SelectedWithoutUri(s, booking) ==
    IF s.flow = "CANCEL" THEN AddMessage(s, <<"are you sure you want to cancel">>)
    ELSE IF s.flow = "RESCHEDULE"
    THEN [AddMessage(s, <<"when would you like to reschedule">>)
             EXCEPT !.user_name = OrElse(booking.name, s.user_name),
                    !.time_preference = None,
                    !.available_slots = None,
                    !.selected_slot = None]
    ELSE s

\* What select_event returns for the booking the reply selects.
Selected(s, booking) ==
    IF s.flow = "CANCEL"
    THEN [AddMessage(s, <<"are you sure you want to cancel">>)
             EXCEPT !.selected_event_uri = Some(booking.uri)]
    ELSE IF s.flow = "RESCHEDULE"
    THEN [AddMessage(s, <<"when would you like to reschedule">>)
             EXCEPT !.selected_event_uri = Some(booking.uri),
                    !.user_name = OrElse(booking.name, s.user_name),
                    !.time_preference = None,
                    !.available_slots = None,
                    !.selected_slot = None]
    ELSE s

SelectWith(s, response, selected_booking) ==
    IF selected_booking = None
    THEN NothingSelected(s, s.matched_events[1], int(response))
    ELSE Selected(s, selected_booking[1])

\* select_event; it is reached with matched_events holding a list.
select_event(s) ==
    IF LastHuman(s) = None THEN s
    ELSE SelectWith(s, lower(strip(LastHuman(s)[1])),
                    SelectedBooking(s.matched_events[1], lower(strip(LastHuman(s)[1]))))

\* Whether confirm_action calls the scheduling service.
ConfirmCancels(s) ==
    /\ LastHuman(s) # None
    /\ lower(strip(LastHuman(s)[1])) \in ConfirmYes
    /\ Truthy(s.selected_event_uri)

\* A confirm_action that cancels on any reply that contains "y".
confirm_action_eager(s, service) ==
    IF LastHuman(s) # None /\ Contains(lower(LastHuman(s)[1]), <<"y">>)
       /\ Truthy(s.selected_event_uri)
    THEN [state |-> [AddMessage(s, <<"successfully canceled">>)
                       EXCEPT !.flow = "IDLE", !.intent = "NONE", !.matched_events = None,
                              !.selected_event_uri = None, !.confirmed = TRUE],
          calls |-> <<[op |-> "cancelEvent", uri |-> s.selected_event_uri]>>]
    ELSE [state |-> [AddMessage(s, <<"your appointment remains scheduled">>)
                       EXCEPT !.flow = "IDLE", !.intent = "NONE", !.matched_events = None,
                              !.selected_event_uri = None],
          calls |-> <<>>]

\* confirm_action, given what the scheduling service does: [raise |-> TRUE]
\* with the exception's text, or [raise |-> FALSE].  The result is the new
\* state and the calls made.
confirm_action(s, service) ==
    IF LastHuman(s) = None THEN [state |-> s, calls |-> <<>>]
    ELSE IF lower(strip(LastHuman(s)[1])) \in ConfirmYes
    THEN (IF ~Truthy(s.selected_event_uri) THEN [state |-> s, calls |-> <<>>]
          ELSE IF service.raise
          THEN [state |-> [AddMessage(s, <<"Error cancelling appointment: ">> \o service.text)
                             EXCEPT !.error = Some(service.text)],
                calls |-> <<[op |-> "cancelEvent", uri |-> s.selected_event_uri]>>]
          ELSE [state |-> [AddMessage(s, <<"successfully canceled">>)
                             EXCEPT !.flow = "IDLE", !.intent = "NONE",
                                    !.matched_events = None,
                                    !.selected_event_uri = None,
                                    !.confirmed = TRUE],
                calls |-> <<[op |-> "cancelEvent", uri |-> s.selected_event_uri]>>])
    ELSE [state |-> [AddMessage(s, <<"your appointment remains scheduled">>)
                       EXCEPT !.flow = "IDLE", !.intent = "NONE",
                              !.matched_events = None,
                              !.selected_event_uri = None],
          calls |-> <<>>]

(***************************************************************************)
(* FAQ, general reply, error handler.                                      *)
(***************************************************************************)
\* handle_faq, given whether retrieval or generation fails.
handle_faq(s, raise) ==
    IF LastHuman(s) = None THEN s
    ELSE IF raise THEN [s EXCEPT !.error = Some(<<"ERROR: ", "service failure">>)]
    ELSE AddMessage(s, <<"faq answer">>)

\* respond_to_user, when the generation service answers.
respond_to_user(s) ==
    IF LastHuman(s) = None THEN s ELSE AddMessage(s, <<"general reply">>)

tool_error_handler(s) ==
    [AddMessage(s, <<"I apologize, but I encountered an issue: ">>
                   \o (IF s.error = None THEN <<"None">> ELSE s.error[1]))
       EXCEPT !.error = None]

(***************************************************************************)
(* Routing functions (the conditional edges of the graph).                 *)
(***************************************************************************)
\* An entry routing that treats a reschedule as it treats a cancellation.
route_from_entry_shared(s) ==
    IF s.flow = "BOOK" THEN "booking_collect_identity"
    ELSE IF s.flow \in {"CANCEL", "RESCHEDULE"}
    THEN (IF Truthy(s.selected_event_uri) THEN "confirm_action"
          ELSE IF Truthy(s.matched_events) THEN "select_event"
          ELSE "lookup_events")
    ELSE IF s.intent = "BOOK" THEN "booking_collect_identity"
    ELSE IF s.intent = "CANCEL" THEN "lookup_events"
    ELSE IF s.intent = "RESCHEDULE" THEN "lookup_events"
    ELSE "router"

route_from_entry(s) ==
    IF s.flow = "BOOK" THEN "booking_collect_identity"
    ELSE IF s.flow = "CANCEL"
    THEN (IF Truthy(s.selected_event_uri) THEN "confirm_action"
          ELSE IF Truthy(s.matched_events) THEN "select_event"
          ELSE "lookup_events")
    ELSE IF s.flow = "RESCHEDULE"
    THEN (IF Truthy(s.selected_event_uri) THEN "booking_collect_identity"
          ELSE IF Truthy(s.matched_events) THEN "select_event"
          ELSE "lookup_events")
    ELSE IF s.intent = "BOOK" THEN "booking_collect_identity"
    ELSE IF s.intent = "CANCEL" THEN "lookup_events"
    ELSE IF s.intent = "RESCHEDULE" THEN "lookup_events"
    ELSE "router"

route_after_router(s) ==
    IF s.intent = "BOOK" THEN "booking_collect_identity"
    ELSE IF s.intent = "CANCEL" THEN "lookup_events"
    ELSE IF s.intent = "RESCHEDULE" THEN "lookup_events"
    ELSE IF s.intent = "FAQ" THEN "handle_faq"
    ELSE "respond_to_user"

\* A routing after the identity check that asks for the identity before it
\* looks at the selected slot.
route_after_identity_check_identity_first(s) ==
    IF ~(Truthy(s.user_name) /\ Truthy(s.user_email)) THEN "ask_for_name_email"
    ELSE IF s.selected_slot # None THEN "booking_create"
    ELSE IF s.available_slots # None THEN "parse_slot_selection"
    ELSE IF s.asked_for_preference /\ s.time_preference = None THEN "parse_time_preference"
    ELSE IF s.time_preference # None THEN "booking_check_availability"
    ELSE "ask_for_time_preference"

route_after_identity_check(s) ==
    LET has_identity         == Truthy(s.user_name) /\ Truthy(s.user_email)
        has_preference       == s.time_preference # None
        asked_for_preference == s.asked_for_preference
        has_slots            == s.available_slots # None
        has_selection        == s.selected_slot # None
    IN  IF has_selection THEN "booking_create"
        ELSE IF has_identity /\ has_slots /\ ~has_selection THEN "parse_slot_selection"
        ELSE IF has_identity /\ asked_for_preference /\ ~has_preference
        THEN "parse_time_preference"
        ELSE IF has_identity /\ has_preference /\ ~has_slots THEN "booking_check_availability"
        ELSE IF has_identity /\ ~has_preference /\ ~asked_for_preference
        THEN "ask_for_time_preference"
        ELSE "ask_for_name_email"

route_after_availability_check(s) ==
    IF Truthy(s.error) THEN "tool_error_handler" ELSE "END"

\* A routing after the slot selection that ends the turn whenever no slot was
\* selected.
route_after_slot_selection_ending(s) ==
    IF Truthy(s.selected_slot) THEN "booking_create" ELSE "END"

route_after_slot_selection(s) ==
    IF Truthy(s.selected_slot) THEN "booking_create"
    ELSE IF s.available_slots = None THEN "parse_time_preference"
    ELSE "END"

route_after_lookup(s) == "END"

route_after_selection(s) ==
    IF ~Truthy(s.selected_event_uri) THEN "END"
    ELSE IF s.flow = "RESCHEDULE" THEN "ask_for_time_preference"
    ELSE "END"

(***************************************************************************)
(* The driver (main): what it keeps of the state a turn returns.           *)
(***************************************************************************)
DriverMerge(state, result) ==
    [messages             |-> result.messages,
     intent               |-> result.intent,
     flow                 |-> result.flow,
     user_name            |-> IF Truthy(result.user_name) THEN result.user_name
                              ELSE state.user_name,
     user_email           |-> IF Truthy(result.user_email) THEN result.user_email
                              ELSE state.user_email,
     time_preference      |-> IF Truthy(result.time_preference) THEN result.time_preference
                              ELSE state.time_preference,
     asked_for_preference |-> result.asked_for_preference,
     selected_slot        |-> IF Truthy(result.selected_slot) THEN result.selected_slot
                              ELSE state.selected_slot,
     available_slots      |-> IF Truthy(result.available_slots) THEN result.available_slots
                              ELSE state.available_slots,
     error                |-> result.error,
     lookup_email         |-> IF Truthy(result.lookup_email) THEN result.lookup_email
                              ELSE state.lookup_email,
     matched_events       |-> IF Truthy(result.matched_events) THEN result.matched_events
                              ELSE state.matched_events,
     selected_event_uri   |-> IF Truthy(result.selected_event_uri)
                              THEN result.selected_event_uri
                              ELSE state.selected_event_uri,
     confirmed            |-> result.confirmed]

\* The words that end the session.
ExitWords == {<<"e","x","i","t">>, <<"q","u","i","t">>, <<"q">>}

(***************************************************************************)
(* Inputs: what the user types and what the collaborators answer.          *)
(***************************************************************************)
\* The conversations explored: in each the user draws every message from one
\* of these sets.
Scripts ==
    {{<<"B","o","o","k"," ","m","e",","," ","J","a","n","e"," ","D","o","e"," ","j","a","n","e","@","x",".","c","o","m">>, <<"t","u","e","s","d","a","y"," ","m","o","r","n","i","n","g">>, <<"1">>},
     {<<"C","a","n","c","e","l"," ","m","y"," ","b","o","o","k","i","n","g"," ","f","o","r"," ","j","a","n","e","@","x",".","c","o","m">>, <<"y","e","s">>, <<"2">>},
     {<<"B","o","o","k"," ","m","e",","," ","J","a","n","e"," ","D","o","e"," ","j","a","n","e","@","x",".","c","o","m">>, <<"C","a","n","c","e","l"," ","m","y"," ","b","o","o","k","i","n","g"," ","p","l","e","a","s","e">>, <<"y","e","s">>},
     {<<"R","e","s","c","h","e","d","u","l","e"," ","m","y"," ","v","i","s","i","t",","," ","J","a","n","e"," ","D","o","e"," ","j","a","n","e","@","x",".","c","o","m">>, <<"1">>, <<"S","u","r","e">>},
     {<<"C","a","n","c","e","l"," ","m","y"," ","b","o","o","k","i","n","g"," ","f","o","r"," ","j","a","n","e","@","x",".","c","o","m">>, <<"I"," ","w","a","n","t"," ","t","o"," ","b","o","o","k"," ","a","n"," ","a","p","p","o","i","n","t","m","e","n","t">>,
      <<"a","n","y"," ","t","i","m","e"," ","o","n"," ","m","o","n","d","a","y">>},
     {<<"B","o","o","k"," ","m","e",","," ","J","a","n","e"," ","D","o","e"," ","j","a","n","e","@","x",".","c","o","m">>, <<"P","l","e","a","s","e"," ","r","e","s","c","h","e","d","u","l","e"," ","i","t">>, <<"y","e","s">>},
     {<<"h","e","l","l","o">>, <<"W","h","a","t"," ","a","r","e"," ","y","o","u","r"," ","o","p","e","n","i","n","g"," ","h","o","u","r","s","?">>, <<"q">>},
     {<<"b","o","o","k"," ","a","n"," ","a","p","p","o","i","n","t","m","e","n","t">>, <<"J","a","n","e"," ","D","o","e"," ","j","a","n","e","@","x",".","c","o","m">>, <<"t","u","e","s","d","a","y"," ","m","o","r","n","i","n","g">>, <<"1">>},
     {<<"c","a","n","c","e","l"," ","m","y"," ","a","p","p","o","i","n","t","m","e","n","t">>, <<"j","a","n","e","@","x",".","c","o","m">>, <<"y","e","s">>},
     {<<"R","e","s","c","h","e","d","u","l","e"," ","m","y"," ","v","i","s","i","t",","," ","J","a","n","e"," ","D","o","e"," ","j","a","n","e","@","x",".","c","o","m">>, <<"1">>, <<"a","n","y"," ","a","v","a","i","l","a","b","l","e"," ","s","l","o","t">>}}

\* Answers of the classification service.
ClassifyResponses == {<<"B","O","O","K">>, <<" ","f","a","q","\n">>, <<"I"," ","a","m"," ","n","o","t"," ","s","u","r","e">>}

\* Answers of the extraction service, as json.loads reads them.
ExtractResponses ==
    {[json |-> FALSE],
     [json |-> TRUE, name |-> None, email |-> None],
     [json |-> TRUE, name |-> Some(<<>>), email |-> Some(<<>>)],
     [json |-> TRUE, name |-> Some(<<"J","a","n","e"," ","D","o","e">>), email |-> Some(<<"j","a","n","e","@","x",".","c","o","m">>)]}

Slot(start_time) == [start_time |-> start_time]

\* Monday 09:00, Tuesday 10:00, Tuesday 14:00.
OfferedSlots ==
    <<Slot(<<"2","0","2","6","-","1","1","-","0","9","T","0","9",":","0","0",":","0","0","Z">>), Slot(<<"2","0","2","6","-","1","1","-","1","0","T","1","0",":","0","0",":","0","0","Z">>),
      Slot(<<"2","0","2","6","-","1","1","-","1","0","T","1","4",":","0","0",":","0","0",".","0","0","0","0","0","0","Z">>)>>

SlotOutcomes ==
    {[raise |-> TRUE], [raise |-> FALSE, slots |-> <<>>],
     [raise |-> FALSE, slots |-> OfferedSlots]}

Event1 == [uri |-> <<"e","v","e","n","t","s","/","1">>, start_time |-> <<"2","0","2","6","-","1","1","-","1","2","T","0","9",":","0","0",":","0","0","Z">>,
           name |-> Some(<<"D","e","n","t","a","l"," ","C","h","e","c","k","-","u","p">>)]

Event2 == [uri |-> <<"e","v","e","n","t","s","/","2">>, start_time |-> <<"2","0","2","6","-","1","1","-","1","3","T","1","5",":","0","0",":","0","0","Z">>, name |-> None]

\* The texts of the exceptions a failing call raises; str(e) may be empty.
ExceptionTexts == {<<>>, <<"timed out">>}

LookupOutcomes ==
    {[raise |-> TRUE, text |-> t] : t \in ExceptionTexts}
    \cup {[raise |-> FALSE, bookings |-> b] : b \in {<<>>, <<Event1>>, <<Event1, Event2>>}}

CreateOutcomes ==
    {[create |-> c, cancel |-> x] : c \in {"ok", "error", "raise"}, x \in {"ok", "raise"}}

CancelOutcomes ==
    {[raise |-> TRUE, text |-> t] : t \in ExceptionTexts} \cup {[raise |-> FALSE]}

(***************************************************************************)
(* The state machine.                                                      *)
(*   st     the state the driver keeps between turns                       *)
(*   g      the state threaded through the nodes of the current turn       *)
(*   pc     "idle" (waiting for input), the node about to run, "END",      *)
(*          "raised" (a node raised), "exited"                             *)
(*   calls  the calls made to the scheduling service in the current turn   *)
(*   ran    the nodes run in the current turn, in order                    *)
(*   faults the number of collaborator calls that failed so far            *)
(*   inputs the set the user draws messages from                           *)
(***************************************************************************)
NumHuman(s) == Cardinality({i \in 1..Len(s.messages) : s.messages[i].role = "human"})

Init ==
    /\ st = InitialState
    /\ g = InitialState
    /\ pc = "idle"
    /\ calls = <<>>
    /\ ran = <<>>
    /\ faults = 0
    /\ inputs \in Scripts

\* A node returns new_state, having made new_calls, failed of which failed.
\* The edge out of the node is taken on the state returned.
Step(node, new_state, new_calls, failed) ==
    /\ faults + failed <= MaxFaults
    /\ faults' = faults + failed
    /\ g' = new_state
    /\ calls' = calls \o new_calls
    /\ ran' = Append(ran, node)
    /\ UNCHANGED <<st, inputs>>

\* The same for a node whose operator gives the state and the calls.
StepCalling(node, r, failed) == Step(node, r.state, r.calls, failed)

\* A node raises: agent.invoke(state) raises and returns nothing.
Raise(node) ==
    /\ faults < MaxFaults
    /\ faults' = faults + 1
    /\ pc' = "raised"
    /\ ran' = Append(ran, node)
    /\ UNCHANGED <<st, g, calls, inputs>>

\* input(), and up to agent.invoke(state): the message is appended to the
\* driver's state, which is the input of the graph.
UserTurn ==
    /\ pc = "idle"
    /\ NumHuman(st) < MaxTurns
    /\ \E user_input \in inputs :
          IF lower(user_input) \in ExitWords
          THEN pc' = "exited" /\ UNCHANGED <<st, g, calls, ran>>
          ELSE /\ st' = [st EXCEPT !.messages = Append(@, HumanMessage(user_input))]
               /\ g' = st'
               /\ pc' = "check_existing_flow"
               /\ calls' = <<>>
               /\ ran' = <<>>
    /\ UNCHANGED <<faults, inputs>>

\* agent.invoke returned: the driver updates its state from the result.
DriverUpdate ==
    /\ pc = "END"
    /\ st' = DriverMerge(st, g)
    /\ pc' = "idle"
    /\ UNCHANGED <<g, calls, ran, faults, inputs>>

\* agent.invoke raised: the driver prints the error and keeps its state.
DriverCatch ==
    /\ pc = "raised"
    /\ pc' = "idle"
    /\ UNCHANGED <<st, g, calls, ran, faults, inputs>>

CheckExistingFlow ==
    /\ pc = "check_existing_flow"
    /\ Step("check_existing_flow", check_existing_flow(g), <<>>, 0)
    /\ pc' = route_from_entry(g')

Router ==
    /\ pc = "router"
    /\ \E o \in {[raise |-> TRUE]} \cup {[raise |-> FALSE, text |-> r] : r \in ClassifyResponses} :
          IF o.raise
          THEN RouterUsesLLM(g) /\ Raise("router")
          ELSE /\ Step("router", router(g, o.text), <<>>, 0)
               /\ pc' = route_after_router(g')

BookingCollectIdentity ==
    /\ pc = "booking_collect_identity"
    /\ \E o \in {[raise |-> TRUE]} \cup {[raise |-> FALSE, data |-> r] : r \in ExtractResponses} :
          IF o.raise
          THEN IdentityUsesLLM(g) /\ Raise("booking_collect_identity")
          ELSE /\ Step("booking_collect_identity", booking_collect_identity(g, o.data), <<>>, 0)
               /\ pc' = route_after_identity_check(g')

AskForNameEmail ==
    /\ pc = "ask_for_name_email"
    /\ Step("ask_for_name_email", ask_for_name_email(g), <<>>, 0)
    /\ pc' = "END"

AskForTimePreference ==
    /\ pc = "ask_for_time_preference"
    /\ Step("ask_for_time_preference", ask_for_time_preference(g), <<>>, 0)
    /\ pc' = "END"

ParseTimePreference ==
    /\ pc = "parse_time_preference"
    /\ Step("parse_time_preference", parse_time_preference(g), <<>>, 0)
    /\ pc' = "booking_check_availability"

\* booking_check_availability with the scheduling service doing one of outcomes.
BookingCheckAvailabilityFor(outcomes) ==
    /\ pc = "booking_check_availability"
    /\ \E o \in outcomes :
          StepCalling("booking_check_availability", booking_check_availability(g, o),
                      IF o.raise THEN 1 ELSE 0)
    /\ pc' = route_after_availability_check(g')

BookingCheckAvailability == BookingCheckAvailabilityFor(SlotOutcomes)

ParseSlotSelection ==
    /\ pc = "parse_slot_selection"
    /\ Step("parse_slot_selection", parse_slot_selection(g), <<>>, 0)
    /\ pc' = route_after_slot_selection(g')

\* The number of calls of booking_create that fail under outcome o.
CreateFailures(s, o) ==
    IF ~HasBookingPreconditions(s) THEN 0
    ELSE IF o.create # "ok" THEN 1
    ELSE IF IsRescheduleOfOld(s) /\ o.cancel = "raise" THEN 1
    ELSE 0

BookingCreate ==
    /\ pc = "booking_create"
    /\ \E o \in CreateOutcomes :
          StepCalling("booking_create", booking_create(g, o), CreateFailures(g, o))
    /\ pc' = "confirm_booking"

ConfirmBooking ==
    /\ pc = "confirm_booking"
    /\ Step("confirm_booking", confirm_booking(g), <<>>, 0)
    /\ pc' = "END"

LookupEvents ==
    /\ pc = "lookup_events"
    /\ \E o \in LookupOutcomes :
          StepCalling("lookup_events", lookup_events(g, o),
                      IF Truthy(LookupEmail(g)) /\ o.raise THEN 1 ELSE 0)
    /\ pc' = route_after_lookup(g')

\* len(None) raises when select_event is run without matched_events.
SelectEvent ==
    /\ pc = "select_event"
    /\ IF LastHuman(g) # None /\ g.matched_events = None
       THEN Raise("select_event")
       ELSE /\ Step("select_event", select_event(g), <<>>, 0)
            /\ pc' = route_after_selection(g')

ConfirmAction ==
    /\ pc = "confirm_action"
    /\ \E o \in CancelOutcomes :
          StepCalling("confirm_action", confirm_action(g, o),
                      IF ConfirmCancels(g) /\ o.raise THEN 1 ELSE 0)
    /\ pc' = "END"

HandleFaq ==
    /\ pc = "handle_faq"
    /\ \E raise \in BOOLEAN :
          Step("handle_faq", handle_faq(g, raise), <<>>,
               IF LastHuman(g) # None /\ raise THEN 1 ELSE 0)
    /\ pc' = "END"

RespondToUser ==
    /\ pc = "respond_to_user"
    /\ \E raise \in BOOLEAN :
          IF raise
          THEN LastHuman(g) # None /\ Raise("respond_to_user")
          ELSE /\ Step("respond_to_user", respond_to_user(g), <<>>, 0)
               /\ pc' = "END"

ToolErrorHandler ==
    /\ pc = "tool_error_handler"
    /\ Step("tool_error_handler", tool_error_handler(g), <<>>, 0)
    /\ pc' = "END"

Next ==
    \/ UserTurn
    \/ DriverUpdate
    \/ DriverCatch
    \/ CheckExistingFlow
    \/ Router
    \/ BookingCollectIdentity
    \/ AskForNameEmail
    \/ AskForTimePreference
    \/ ParseTimePreference
    \/ BookingCheckAvailability
    \/ ParseSlotSelection
    \/ BookingCreate
    \/ ConfirmBooking
    \/ LookupEvents
    \/ SelectEvent
    \/ ConfirmAction
    \/ HandleFaq
    \/ RespondToUser
    \/ ToolErrorHandler

Spec == Init /\ [][Next]_vars

(***************************************************************************)
(* One run of the graph on a state drawn from bounded sets: what a node     *)
(* does on every combination of fields, also those a conversation of        *)
(* MaxTurns messages does not get to.                                       *)
(***************************************************************************)
UnitTexts ==
    {<<"C","a","n","c","e","l"," ","o","r"," ","r","e","s","c","h","e","d","u","l","e"," ","m","y"," ","a","p","p","o","i","n","t","m","e","n","t">>, <<"p","l","e","a","s","e"," ","c","h","a","n","g","e"," ","m","y"," ","s","l","o","t">>, <<"b","o","o","k">>,
     <<"y","e","s">>, <<" ","Y"," ">>, <<"y","e","s"," ","p","l","e","a","s","e">>, <<"2">>, <<"J","a","n","e"," ","D","o","e"," ","j","a","n","e","@","x",".","c","o","m">>, <<"t","u","e","s","d","a","y"," ","a","t"," ","2","p","m">>,
     <<"0">>, <<"-","1">>, <<" ", "4", "\n">>, <<"B","o","b"," ","b","o","b","@","y",".","i","o">>}

UnitMessages == {<<>>} \cup {<<HumanMessage(t)>> : t \in UnitTexts}

\* flow and intent.
UnitFlows ==
    {<<"IDLE", "NONE">>, <<"IDLE", "GENERAL">>, <<"BOOK", "BOOK">>, <<"CANCEL", "CANCEL">>,
     <<"RESCHEDULE", "RESCHEDULE">>}

\* user_name and user_email.
UnitIdentities ==
    {<<None, None>>, <<None, Some(<<"j","a","n","e","@","x",".","c","o","m">>)>>,
     <<Some(<<"J","a","n","e"," ","D","o","e">>), Some(<<"j","a","n","e","@","x",".","c","o","m">>)>>}

\* asked_for_preference, time_preference, available_slots, selected_slot.
UnitBookings ==
    {<<FALSE, None, None, None>>,
     <<TRUE, None, None, None>>,
     <<TRUE, Some(<<"t","u","e","s","d","a","y","|","h","o","u","r",":","1","4">>), None, None>>,
     <<TRUE, Some(<<"a","n","y">>), Some(OfferedSlots), None>>,
     <<TRUE, Some(<<"a","n","y">>), Some(OfferedSlots), Some(OfferedSlots[1].start_time)>>}

\* lookup_email, matched_events, selected_event_uri.  The last is what the
\* driver holds when a flow in which events/2 was selected has ended and a new
\* lookup has listed one event: the driver keeps the URI the nodes cleared.
UnitLookups ==
    {<<None, None, None>>,
     <<Some(<<"j","d","@","z",".","o","r","g">>), None, None>>,
     <<None, Some(<<Event1>>), None>>,
     <<Some(<<"j","d","@","z",".","o","r","g">>), Some(<<Event1, Event2>>), None>>,
     <<None, Some(<<Event1>>), Some(Event1.uri)>>,
     <<Some(<<"j","d","@","z",".","o","r","g">>), Some(<<Event1, Event2>>), Some(Event2.uri)>>,
     <<None, Some(<<Event1>>), Some(Event2.uri)>>}

UnitState(m, f, i, b, l) ==
    [messages             |-> m,
     intent               |-> f[2],
     flow                 |-> f[1],
     user_name            |-> i[1],
     user_email           |-> i[2],
     time_preference      |-> b[2],
     asked_for_preference |-> b[1],
     selected_slot        |-> b[4],
     available_slots      |-> b[3],
     error                |-> None,
     lookup_email         |-> l[1],
     matched_events       |-> l[2],
     selected_event_uri   |-> l[3],
     confirmed            |-> FALSE]

UnitStates ==
    {UnitState(m, f, i, b, l) :
        m \in UnitMessages, f \in UnitFlows, i \in UnitIdentities, b \in UnitBookings,
        l \in UnitLookups}

InitUnit ==
    /\ st \in UnitStates
    /\ g = st
    /\ pc = "check_existing_flow"
    /\ calls = <<>>
    /\ ran = <<>>
    /\ faults = 0
    /\ inputs = {}

NextUnit ==
    \/ CheckExistingFlow
    \/ Router
    \/ BookingCollectIdentity
    \/ AskForNameEmail
    \/ AskForTimePreference
    \/ ParseTimePreference
    \/ BookingCheckAvailability
    \/ ParseSlotSelection
    \/ BookingCreate
    \/ ConfirmBooking
    \/ LookupEvents
    \/ SelectEvent
    \/ ConfirmAction
    \/ HandleFaq
    \/ RespondToUser
    \/ ToolErrorHandler

SpecUnit == InitUnit /\ [][NextUnit]_vars

(***************************************************************************)
(* The time preference on its own: parse_time_preference on a reply drawn  *)
(* from a bounded set, then booking_check_availability on what the         *)
(* scheduling service offers, with every hour of the day on both sides.    *)
(***************************************************************************)
\* What the user answers to the question for a time preference.
PreferenceTexts ==
    {<<"m","o","n","d","a","y"," ">> \o str(h) : h \in 0..23}
    \cup {<<"m","o","r","n","i","n","g">>, <<"2","p","m">>, <<"T","u","e","s","d","a","y"," ","a","f","t","e","r","n","o","o","n">>, <<"t","u","e","s","d","a","y"," ","A","F","T","E","R","N","O","O","N","!">>,
          <<"w","e","d"," ","o","r"," ","m","o","n">>, <<"M","o","n"," ","o","r"," ","W","e","d">>, <<"1","2","a","m">>, <<"1","2","p","m">>, <<"0">>, <<"2","5">>,
          <<"1","3","p","m">>, <<"9",":","3","0"," ","a","m"," ","f","r","i","d","a","y">>, <<"1","1","a","m"," ","o","r"," ","3","p","m">>, <<"3"," ","i","n"," ","t","h","e"," ","a","f","t","e","r","n","o","o","n">>,
          <<"a","n","y","t","i","m","e">>, <<"A","n","y"," ","d","a","y"," ","a","t"," ","3","p","m">>, <<"I","'","m"," ","f","l","e","x","i","b","l","e"," ","o","n"," ","t","u","e","s","d","a","y">>,
          <<"w","h","e","n","e","v","e","r">>, <<"t","u","e","s","d","a","y">>, <<"m","o","n","d","a","y"," ","m","o","r","n","i","n","g">>, <<"e","v","e","n","i","n","g">>,
          <<"t","u","e","s","d","a","y"," ","a","t"," ","2","p","m">>}

\* A slot of November 2026 as the scheduling service lists it (the 9th is a
\* Monday).
SlotAt(day, hour, minute) ==
    LET two(n) == IF n < 10 THEN <<"0">> \o str(n) ELSE str(n)
    IN  Slot(<<"2","0","2","6","-","1","1","-">> \o two(day) \o <<"T">> \o two(hour) \o <<":">> \o two(minute)
             \o <<":","0","0","Z">>)

\* What the scheduling service does when asked for the available times: it
\* fails, offers nothing, offers one Monday slot at any hour, Monday 9:00 and
\* Tuesday 14:00, twelve slots of Monday between 9:00 and 9:55, a list with an
\* entry whose start time is no timestamp, or OfferedSlots.
MatcherOutcomes ==
    {[raise |-> TRUE], [raise |-> FALSE, slots |-> <<>>]}
    \cup {[raise |-> FALSE, slots |-> <<SlotAt(9, h, 0)>>] : h \in 0..23}
    \cup {[raise |-> FALSE, slots |-> l] :
             l \in {<<SlotAt(9, 9, 0), SlotAt(10, 14, 0)>>,
                    [i \in 1..12 |-> SlotAt(9, 9, 5 * (i - 1))],
                    <<Slot(<<"s","o","o","n">>), SlotAt(10, 10, 0), SlotAt(9, 15, 0)>>,
                    OfferedSlots}}

\* The state in which parse_time_preference runs: a booking with the identity
\* known and the preference asked for, and the user's reply.
InitPreference ==
    /\ st \in {UnitState(<<HumanMessage(t)>>, <<"BOOK", "BOOK">>,
                         <<Some(<<"J","a","n","e"," ","D","o","e">>), Some(<<"j","a","n","e","@","x",".","c","o","m">>)>>,
                         <<TRUE, None, None, None>>, <<None, None, None>>) :
                  t \in PreferenceTexts}
    /\ g = st
    /\ pc = "parse_time_preference"
    /\ calls = <<>>
    /\ ran = <<>>
    /\ faults = 0
    /\ inputs = {}

NextPreference ==
    \/ ParseTimePreference
    \/ BookingCheckAvailabilityFor(MatcherOutcomes)
    \/ ToolErrorHandler

SpecPreference == InitPreference /\ [][NextPreference]_vars

(***************************************************************************)
(* Properties.                                                             *)
(***************************************************************************)
\* The node that ran last in the current turn, "" before the first.
LastRan == IF ran = <<>> THEN "" ELSE ran[Len(ran)]

\* C1: in every state the driver holds between turns, the fields of a flow
\* other than the active one are empty: with flow = BOOK, matched_events and
\* selected_event_uri are null; with flow = CANCEL, time_preference,
\* available_slots and selected_slot are null.
C1_OtherFlowsFieldsEmpty ==
    pc = "idle" =>
        /\ st.flow = "BOOK" =>
              st.matched_events = None /\ st.selected_event_uri = None
        /\ st.flow = "CANCEL" =>
              /\ st.time_preference = None
              /\ st.available_slots = None
              /\ st.selected_slot = None

\* C2: when check_existing_flow switches the flow, the state it returns has
\* the scoped fields of the flow it leaves cleared: time_preference,
\* asked_for_preference, available_slots and selected_slot on leaving BOOK;
\* lookup_email, matched_events and selected_event_uri on leaving CANCEL or
\* RESCHEDULE.
C2_SwitchClearsPreviousFlow ==
    (ran = <<"check_existing_flow">> /\ g.flow # st.flow) =>
        /\ st.flow = "BOOK" =>
              /\ g.time_preference = None
              /\ g.asked_for_preference = FALSE
              /\ g.available_slots = None
              /\ g.selected_slot = None
        /\ st.flow \in {"CANCEL", "RESCHEDULE"} =>
              /\ g.lookup_email = None
              /\ g.matched_events = None
              /\ g.selected_event_uri = None

\* C3: the entry check (flow not IDLE) and the classifier resolve keywords in
\* the order cancel > reschedule > book: a message with a cancel keyword gives
\* CANCEL whatever else it contains, and a message with "reschedule",
\* "change" or "move" and no cancel keyword gives RESCHEDULE, never BOOK.
C3_KeywordPriority ==
    /\ (ran = <<"check_existing_flow">> /\ st.flow # "IDLE" /\ LastHuman(st) # None) =>
          /\ ContainsAny(lower(LastHuman(st)[1]), cancel_keywords) => g.flow = "CANCEL"
          /\ (/\ ~ContainsAny(lower(LastHuman(st)[1]), cancel_keywords)
              /\ ContainsAny(lower(LastHuman(st)[1]),
                             {<<"r","e","s","c","h","e","d","u","l","e">>, <<"c","h","a","n","g","e">>, <<"m","o","v","e">>}))
                => g.flow = "RESCHEDULE"
    /\ (ran = <<"check_existing_flow", "router">> /\ pc # "raised" /\ LastHuman(st) # None) =>
          /\ ContainsAny(lower(LastHuman(st)[1]), cancel_keywords) =>
                g.intent = "CANCEL" /\ g.flow = "CANCEL"
          /\ (/\ ~ContainsAny(lower(LastHuman(st)[1]), cancel_keywords)
              /\ ContainsAny(lower(LastHuman(st)[1]),
                             {<<"r","e","s","c","h","e","d","u","l","e">>, <<"c","h","a","n","g","e">>, <<"m","o","v","e">>}))
                => g.intent = "RESCHEDULE" /\ g.flow = "RESCHEDULE"

\* A BOOK flow is interrupted by a message that carries keywords of all three
\* families, and the entry check makes it a CANCEL flow.
C3_Witness ==
    /\ ran = <<"check_existing_flow">>
    /\ st.flow = "BOOK"
    /\ LastHuman(st) = Some(<<"C","a","n","c","e","l"," ","o","r"," ","r","e","s","c","h","e","d","u","l","e"," ","m","y"," ","a","p","p","o","i","n","t","m","e","n","t">>)
    /\ g.flow = "CANCEL"

\* C4: check_existing_flow returns the state unchanged when flow = IDLE, when
\* the latest user message matches no keyword family and when the family it
\* matches is the current flow; otherwise it changes flow and intent and
\* nothing else, so never messages, user_name or user_email.
C4_EntryFrame ==
    ran = <<"check_existing_flow">> =>
        /\ [g EXCEPT !.flow = st.flow, !.intent = st.intent] = st
        /\ g.messages = st.messages /\ g.user_name = st.user_name
        /\ g.user_email = st.user_email
        /\ (\/ st.flow = "IDLE"
            \/ LastHuman(st) = None
            \/ EntryKeywordFlow(lower(LastHuman(st)[1])) \in {"NONE", st.flow})
              => g = st

\* The entry check switches a BOOK flow that has a preference and slots.
C4_Witness ==
    /\ ran = <<"check_existing_flow">>
    /\ st.flow = "BOOK" /\ g.flow = "RESCHEDULE" /\ g.intent = "RESCHEDULE"
    /\ g.available_slots # None

\* C5: after the classifier has run, whatever the message and the service's
\* answer, intent is one of BOOK, CANCEL, RESCHEDULE, FAQ, GENERAL (an answer
\* that is none of the labels gives GENERAL, no user message gives GENERAL),
\* and flow is intent when intent is BOOK, CANCEL or RESCHEDULE, else IDLE.
C5_ClassifierResult ==
    /\ (ran = <<"check_existing_flow", "router">> /\ pc \notin {"raised", "idle", "exited"}) =>
          /\ g.intent \in {"BOOK", "CANCEL", "RESCHEDULE", "FAQ", "GENERAL"}
          /\ g.flow = IF g.intent \in {"BOOK", "CANCEL", "RESCHEDULE"} THEN g.intent
                      ELSE "IDLE"
          /\ LastHuman(st) = None => g.intent = "GENERAL"
    /\ \A r \in ClassifyResponses :
          upper(strip(r)) \notin {<<"B","O","O","K">>, <<"C","A","N","C","E","L">>, <<"R","E","S","C","H","E","D","U","L","E">>, <<"F","A","Q">>, <<"G","E","N","E","R","A","L">>}
             => CoerceIntent(r) = "GENERAL"

\* The classifier has run on a message without keywords and the result is
\* GENERAL with flow IDLE.
C5_Witness ==
    /\ ran = <<"check_existing_flow", "router">>
    /\ pc = "respond_to_user"
    /\ LastHuman(st) = Some(<<"y","e","s"," ","p","l","e","a","s","e">>)
    /\ g.intent = "GENERAL" /\ g.flow = "IDLE"

\* C6: selected_event_uri goes from null to a value only in select_event, on
\* an affirmative reply when there is one candidate or a number in range when
\* there are several; lookup_events always leaves selected_event_uri null,
\* also when exactly one event matches.
C6_UriOnlyFromSelection ==
    [][pc \notin {"idle", "END", "raised", "exited"} =>
          /\ (g.selected_event_uri = None /\ g'.selected_event_uri # None) =>
                /\ pc = "select_event"
                /\ LastHuman(g) # None
                /\ IF Len(g.matched_events[1]) = 1
                   THEN lower(strip(LastHuman(g)[1])) \in {<<"y","e","s">>, <<"y">>, <<"s","u","r","e">>, <<"c","o","r","r","e","c","t">>}
                   ELSE /\ int(lower(strip(LastHuman(g)[1]))) # None
                        /\ int(lower(strip(LastHuman(g)[1])))[1] \in 1..Len(g.matched_events[1])
          /\ pc = "lookup_events" => g'.selected_event_uri = None]_vars


\* C7: confirm_action calls cancelEvent only when selected_event_uri is set and
\* the latest reply (trimmed, lower-cased) is yes, y, confirm or sure, and the
\* call is for that uri; when the cancellation succeeds flow is IDLE,
\* matched_events and selected_event_uri are null and confirmed is true; any
\* other reply makes no call, resets the same fields and leaves confirmed as
\* it was.
C7_CancelOnlyOnConfirmation ==
    [][pc = "confirm_action" =>
          /\ calls' # calls =>
                /\ Truthy(g.selected_event_uri)
                /\ LastHuman(g) # None
                /\ lower(strip(LastHuman(g)[1])) \in {<<"y","e","s">>, <<"y">>, <<"c","o","n","f","i","r","m">>, <<"s","u","r","e">>}
                /\ calls' = Append(calls, [op |-> "cancelEvent", uri |-> g.selected_event_uri])
          /\ (calls' # calls
              /\ g'.messages[Len(g'.messages)].content = <<"successfully canceled">>) =>
                /\ g'.flow = "IDLE"
                /\ g'.matched_events = None
                /\ g'.selected_event_uri = None
                /\ g'.confirmed = TRUE
          /\ (LastHuman(g) # None
              /\ lower(strip(LastHuman(g)[1])) \notin {<<"y","e","s">>, <<"y">>, <<"c","o","n","f","i","r","m">>, <<"s","u","r","e">>}) =>
                /\ calls' = calls
                /\ g'.flow = "IDLE"
                /\ g'.matched_events = None
                /\ g'.selected_event_uri = None
                /\ g'.confirmed = g.confirmed]_vars

\* confirm_action has cancelled the selected event on the reply " Y ".
C7_Witness ==
    /\ LastRan = "confirm_action"
    /\ LastHuman(st) = Some(<<" ","Y"," ">>)
    /\ calls = <<[op |-> "cancelEvent", uri |-> st.selected_event_uri]>>
    /\ st.flow = "CANCEL" /\ ~st.confirmed
    /\ g.flow = "IDLE" /\ g.confirmed /\ g.selected_event_uri = None

\* C8: booking_create entered with selected_slot, user_name or user_email
\* missing sets error, calls the scheduling service not at all, and leaves
\* flow and every other field as they were.
C8_CreateNeedsAllThree ==
    [][(pc = "booking_create"
        /\ ~(Truthy(g.selected_slot) /\ Truthy(g.user_name) /\ Truthy(g.user_email))) =>
          /\ Truthy(g'.error)
          /\ calls' = calls
          /\ [g' EXCEPT !.error = g.error] = g]_vars

\* booking_create has run with a slot selected and no user_name.
C8_Witness ==
    /\ LastRan = "booking_create"
    /\ g.selected_slot # None /\ g.user_name = None
    /\ Truthy(g.error)
    /\ calls = <<>>

\* C9: when booking_create succeeds (it reports the booking), flow is IDLE,
\* selected_slot, available_slots, time_preference, matched_events,
\* selected_event_uri and error are null, asked_for_preference is false, and
\* user_name and user_email are as before the call.
C9_CreateSuccessResets ==
    [][(pc = "booking_create" /\ Len(g'.messages) > Len(g.messages)) =>
          /\ calls' # calls
          /\ g'.flow = "IDLE"
          /\ g'.selected_slot = None
          /\ g'.available_slots = None
          /\ g'.time_preference = None
          /\ g'.matched_events = None
          /\ g'.selected_event_uri = None
          /\ g'.error = None
          /\ g'.asked_for_preference = FALSE
          /\ g'.user_name = g.user_name
          /\ g'.user_email = g.user_email]_vars

\* booking_create has booked the selected slot of a booking in progress.
C9_Witness ==
    /\ LastRan = "booking_create"
    /\ st.flow = "BOOK" /\ st.available_slots # None /\ st.asked_for_preference
    /\ Len(calls) = 1 /\ calls[1].op = "createAppointment"
    /\ calls[1].start_time = st.selected_slot
    /\ g.flow = "IDLE" /\ g.available_slots = None /\ g.error = None
    /\ g.user_name = st.user_name /\ Truthy(g.user_name)

\* C10: after confirm_action has cancelled successfully, flow is IDLE,
\* lookup_email, matched_events, selected_event_uri, time_preference,
\* available_slots and selected_slot are null, asked_for_preference is false,
\* and user_name and user_email are those the turn started with.
C10_CancellationClearsAll ==
    (/\ LastRan = "confirm_action"
     /\ pc = "END"
     /\ g.messages[Len(g.messages)].content = <<"successfully canceled">>) =>
        /\ g.flow = "IDLE"
        /\ g.lookup_email = None
        /\ g.matched_events = None
        /\ g.selected_event_uri = None
        /\ g.time_preference = None
        /\ g.available_slots = None
        /\ g.selected_slot = None
        /\ g.asked_for_preference = FALSE
        /\ g.user_name = st.user_name
        /\ g.user_email = st.user_email

\* C11: in a RESCHEDULE flow with selected_event_uri set, when the new
\* appointment is created and cancelling the old one fails, booking_create
\* still reports the booking with a warning appended, sets no error, and
\* resets flow to IDLE with selected_slot, available_slots, time_preference,
\* matched_events and selected_event_uri null and asked_for_preference false.
C11_OldCancelFailureIsWarning ==
    [][(/\ pc = "booking_create"
        /\ g.flow = "RESCHEDULE" /\ Truthy(g.selected_event_uri)
        /\ Len(calls') = Len(calls) + 2
        /\ faults' = faults + 1) =>
          /\ calls'[Len(calls') - 1].op = "createAppointment"
          /\ calls'[Len(calls')] = [op |-> "cancelEvent", uri |-> g.selected_event_uri]
          /\ Len(g'.messages) = Len(g.messages) + 1
          /\ g'.messages[Len(g'.messages)] =
                AIMessage(<<"confirmed", "warning: failed to cancel the old one">>)
          /\ g'.error = None
          /\ g'.flow = "IDLE"
          /\ g'.selected_slot = None
          /\ g'.available_slots = None
          /\ g'.time_preference = None
          /\ g'.matched_events = None
          /\ g'.selected_event_uri = None
          /\ g'.asked_for_preference = FALSE]_vars

\* booking_create has booked the new slot of a reschedule while the
\* cancellation of the old appointment failed.
C11_Witness ==
    /\ LastRan = "booking_create"
    /\ st.flow = "RESCHEDULE" /\ Truthy(st.selected_event_uri)
    /\ Len(calls) = 2 /\ calls[2] = [op |-> "cancelEvent", uri |-> st.selected_event_uri]
    /\ faults = 1
    /\ g.messages[Len(g.messages)].content = <<"confirmed", "warning: failed to cancel the old one">>
    /\ g.flow = "IDLE" /\ g.error = None

\* C12: in a reschedule the old appointment is cancelled only after the new
\* one is created: a cancelEvent call made while flow is RESCHEDULE is made by
\* booking_create, for selected_event_uri, directly after a createAppointment
\* call of the same execution that succeeded; when booking_create reports no
\* booking (creation failed or a precondition is missing) it calls cancelEvent
\* not at all and keeps selected_event_uri and flow.
C12_CancelOldAfterCreate ==
    [][/\ (/\ g.flow = "RESCHEDULE"
           /\ \E i \in (Len(calls) + 1)..Len(calls') : calls'[i].op = "cancelEvent") =>
              /\ pc = "booking_create"
              /\ Len(calls') = Len(calls) + 2
              /\ calls'[Len(calls) + 1] =
                    [op |-> "createAppointment", start_time |-> g.selected_slot,
                     name |-> g.user_name, email |-> g.user_email]
              /\ calls'[Len(calls) + 2] = [op |-> "cancelEvent", uri |-> g.selected_event_uri]
              /\ Len(g'.messages) = Len(g.messages) + 1
              /\ g'.messages[Len(g'.messages)].content[1] = "confirmed"
       /\ (pc = "booking_create" /\ Len(g'.messages) = Len(g.messages)) =>
              /\ \A i \in (Len(calls) + 1)..Len(calls') : calls'[i].op # "cancelEvent"
              /\ g'.selected_event_uri = g.selected_event_uri
              /\ g'.flow = g.flow]_vars

\* booking_create has failed to create the new appointment of a reschedule:
\* the old appointment is not cancelled and stays selected.
C12_Witness ==
    /\ LastRan = "booking_create"
    /\ st.flow = "RESCHEDULE" /\ Truthy(st.selected_event_uri)
    /\ Len(calls) = 1 /\ calls[1].op = "createAppointment"
    /\ Truthy(g.error)
    /\ g.flow = "RESCHEDULE" /\ g.selected_event_uri = st.selected_event_uri

\* C13: with N slots shown, a reply that is an integer outside 1..N sets no
\* selected_slot: parse_slot_selection appends a re-prompt naming 1..N and
\* changes nothing else (available_slots stays), and the turn ends there,
\* booking_create does not run.
C13_OutOfRangeReprompts ==
    [][(/\ pc = "parse_slot_selection"
        /\ Truthy(g.available_slots)
        /\ LastHuman(g) # None
        /\ int(LastHuman(g)[1]) # None
        /\ int(LastHuman(g)[1])[1] \notin 1..Len(g.available_slots[1])) =>
          /\ g.selected_slot = None /\ g'.selected_slot = None
          /\ g'.available_slots = g.available_slots
          /\ g' = [g EXCEPT !.messages =
                      Append(@, AIMessage(<<"choose a number between 1 and",
                                            str(Len(g.available_slots[1]))>>))]
          /\ calls' = calls
          /\ pc' = "END"]_vars

\* parse_slot_selection has re-prompted on the reply "0" with three slots shown.
C13_Witness ==
    /\ LastRan = "parse_slot_selection"
    /\ LastHuman(st) = Some(<<"0">>)
    /\ Len(st.available_slots[1]) = 3
    /\ g.messages[Len(g.messages)].content = <<"choose a number between 1 and", <<"3">>>>
    /\ g.selected_slot = None /\ g.available_slots = st.available_slots
    /\ pc = "END"

\* C14: with N slots shown, a reply that is an integer k in 1..N makes
\* parse_slot_selection set selected_slot to the start time of the k-th shown
\* slot, append no message and change nothing else, and booking_create runs
\* next in the same turn.
C14_InRangeSelects ==
    [][(/\ pc = "parse_slot_selection"
        /\ Truthy(g.available_slots)
        /\ LastHuman(g) # None
        /\ int(LastHuman(g)[1]) # None
        /\ int(LastHuman(g)[1])[1] \in 1..Len(g.available_slots[1])) =>
          /\ g' = [g EXCEPT !.selected_slot =
                      Some(g.available_slots[1][int(LastHuman(g)[1])[1]].start_time)]
          /\ g'.messages = g.messages
          /\ pc' = "booking_create"]_vars

\* parse_slot_selection has taken the reply "2" as the second of three slots
\* and booking_create is next.
C14_Witness ==
    /\ LastRan = "parse_slot_selection"
    /\ LastHuman(st) = Some(<<"2">>)
    /\ st.selected_slot = None
    /\ Len(st.available_slots[1]) = 3
    /\ g.selected_slot = Some(st.available_slots[1][2].start_time)
    /\ g.messages = st.messages
    /\ pc = "booking_create"

\* C15: with slots shown, a reply that is no integer makes parse_slot_selection
\* clear available_slots, append no message and leave selected_slot null; in
\* the same turn parse_time_preference then parses that reply and
\* booking_check_availability runs, and the turn ends either with a newly
\* computed slot list or, through tool_error_handler, with its message.
C15_TextReplyReparses ==
    [][/\ (/\ pc = "parse_slot_selection"
           /\ Truthy(g.available_slots)
           /\ LastHuman(g) # None
           /\ int(LastHuman(g)[1]) = None) =>
              /\ g' = [g EXCEPT !.available_slots = None]
              /\ g'.messages = g.messages
              /\ g'.selected_slot = None
              /\ pc' = "parse_time_preference"
       /\ (pc = "parse_time_preference" /\ LastRan = "parse_slot_selection") =>
              /\ g' = [g EXCEPT !.time_preference = Some(ParsePreference(LastHuman(g)[1]))]
              /\ pc' = "booking_check_availability"
       /\ pc = "booking_check_availability" =>
              \/ /\ pc' = "END"
                 /\ Truthy(g'.available_slots)
                 /\ g'.error = None
                 /\ Len(g'.messages) = Len(g.messages) + 1
                 /\ g'.messages[Len(g'.messages)].role = "ai"
                 /\ g'.messages[Len(g'.messages)].content[1] = "slots"
              \/ /\ pc' = "tool_error_handler"
                 /\ Truthy(g'.error)
                 /\ g'.messages = g.messages
       /\ pc = "tool_error_handler" =>
              /\ pc' = "END"
              /\ Len(g'.messages) = Len(g.messages) + 1
              /\ g'.messages[Len(g'.messages)].role = "ai"
              /\ g'.messages[Len(g'.messages)].content[1] =
                    "I apologize, but I encountered an issue: "]_vars

\* The reply "tuesday at 2pm" to three shown slots has been re-parsed into
\* the preference tuesday|hour:14 and the turn has ended with the one slot
\* that matches it.
C15_Witness ==
    /\ pc = "END"
    /\ ran = <<"check_existing_flow", "booking_collect_identity", "parse_slot_selection",
               "parse_time_preference", "booking_check_availability">>
    /\ LastHuman(st) = Some(<<"t","u","e","s","d","a","y"," ","a","t"," ","2","p","m">>)
    /\ Len(st.available_slots[1]) = 3
    /\ g.time_preference = Some(<<"t","u","e","s","d","a","y","|","h","o","u","r",":","1","4">>)
    /\ g.available_slots = Some(<<st.available_slots[1][3]>>)
    /\ g.selected_slot = None

\* C16: with user_name and user_email both set, booking_collect_identity
\* returns the state as it is, whatever the message, and asks no service (it
\* cannot fail); in every case it changes no field but user_name and
\* user_email, a value it stores is non-empty, and a value that was set is
\* still set afterwards, whatever the pattern finds and the extraction service
\* answers (an answer that is not JSON included).
C16_IdentityOnlyAdded ==
    [][pc = "booking_collect_identity" =>
          /\ (Truthy(g.user_name) /\ Truthy(g.user_email)) =>
                /\ g' = g
                /\ calls' = calls
                /\ faults' = faults
                /\ pc' # "raised"
          /\ [g' EXCEPT !.user_name = g.user_name, !.user_email = g.user_email] = g
          /\ g'.user_name # g.user_name => Truthy(g'.user_name)
          /\ g'.user_email # g.user_email => Truthy(g'.user_email)
          /\ Truthy(g.user_name) => Truthy(g'.user_name)
          /\ Truthy(g.user_email) => Truthy(g'.user_email)]_vars

\* booking_collect_identity has run on "Bob bob@y.io" with the identity of
\* Jane Doe stored, and the stored identity is as it was.
C16_Witness ==
    /\ LastRan = "booking_collect_identity"
    /\ LastHuman(st) = Some(<<"B","o","b"," ","b","o","b","@","y",".","i","o">>)
    /\ st.user_name = Some(<<"J","a","n","e"," ","D","o","e">>) /\ st.user_email = Some(<<"j","a","n","e","@","x",".","c","o","m">>)
    /\ g = st

\* C17: once user_name and user_email both hold values, no node other than
\* booking_collect_identity changes either of them, in whatever flow, and the
\* state the driver keeps holds the same two values after the turn.
C17_IdentityPersists ==
    [][(Truthy(g.user_name) /\ Truthy(g.user_email)) =>
          /\ pc \notin {"idle", "END", "raised", "exited", "booking_collect_identity"} =>
                (g'.user_name = g.user_name /\ g'.user_email = g.user_email)
          /\ (pc = "END" /\ Truthy(st.user_name) /\ Truthy(st.user_email)) =>
                (st'.user_name = st.user_name /\ st'.user_email = st.user_email)]_vars

\* C18: lookup_events queries the scheduling service with the first e-mail
\* address of the latest user message if there is one, else with the stored
\* lookup_email, else with user_email: it makes one listScheduledEvents call
\* with exactly that address, and no call when there is none.
C18_LookupEmailPrecedence ==
    [][pc = "lookup_events" =>
          LET in_message == IF LastHuman(g) = None THEN None
                            ELSE FirstEmail(LastHuman(g)[1])
              expected   == IF Truthy(in_message) THEN in_message
                            ELSE IF Truthy(g.lookup_email) THEN g.lookup_email
                            ELSE g.user_email
          IN  IF Truthy(expected)
              THEN calls' = Append(calls, [op |-> "listScheduledEvents", email |-> expected])
              ELSE calls' = calls]_vars

\* lookup_events has queried bob@y.io, the address of the message, with
\* another lookup_email and another user_email stored.
C18_Witness ==
    /\ LastRan = "lookup_events"
    /\ LastHuman(st) = Some(<<"B","o","b"," ","b","o","b","@","y",".","i","o">>)
    /\ st.lookup_email = Some(<<"j","d","@","z",".","o","r","g">>)
    /\ st.user_email = Some(<<"j","a","n","e","@","x",".","c","o","m">>)
    /\ calls = <<[op |-> "listScheduledEvents", email |-> Some(<<"b","o","b","@","y",".","i","o">>)]>>

\* C19: when the latest user message holds no e-mail address and lookup_email
\* and user_email are both null, lookup_events appends the e-mail prompt, with
\* the action word "reschedule" in a RESCHEDULE flow and "cancel" otherwise,
\* calls the scheduling service not at all and changes no other field; and in
\* the turn after such a prompt the entry node, unless it switches the flow,
\* hands over to lookup_events again.
C19_NoEmailPromptsAndWaits ==
    [][/\ (/\ pc = "lookup_events"
           /\ LastHuman(g) # None
           /\ g.lookup_email = None
           /\ g.user_email = None) =>
              IF FirstEmail(LastHuman(g)[1]) = None
              THEN /\ g' = [g EXCEPT !.messages =
                              Append(@, AIMessage(<<"please provide your email address",
                                                    IF g.flow = "RESCHEDULE" THEN "reschedule"
                                                    ELSE "cancel">>))]
                   /\ calls' = calls
                   /\ pc' = "END"
              ELSE TRUE
       /\ (/\ pc = "check_existing_flow"
           /\ Len(g.messages) >= 2
           /\ g.messages[Len(g.messages) - 1].role = "ai"
           /\ g.messages[Len(g.messages) - 1].content[1] = "please provide your email address"
           /\ g'.flow = g.flow) =>
              pc' = "lookup_events"]_vars

\* A second turn in a row that lookup_events has ended with the e-mail prompt,
\* without a call to the scheduling service.
C19_Witness ==
    /\ pc = "END"
    /\ ran = <<"check_existing_flow", "lookup_events">>
    /\ calls = <<>>
    /\ Len(g.messages) = 4
    /\ g.messages[2] = AIMessage(<<"please provide your email address", "reschedule">>)
    /\ g.messages[4] = AIMessage(<<"please provide your email address", "reschedule">>)
    /\ g.flow = "RESCHEDULE"
    /\ g.matched_events = None
    /\ g.selected_event_uri = None

\* C20: select_event stores the uri of an appointment exactly when there is
\* one candidate and the reply, stripped and lower-cased, is yes, y, sure or
\* correct, or there are several candidates and the reply is an integer from 1
\* to their number.  With one candidate any other reply ends the flow
\* (flow = IDLE, selected_event_uri still null); with several candidates any
\* other reply, yes and no included, is answered with a prompt for a number
\* and flow, matched_events and selected_event_uri stay as they were.
C20_SelectionCases ==
    [][(/\ pc = "select_event"
        /\ pc' # "raised"
        /\ LastHuman(g) # None) =>
          IF Len(g.matched_events[1]) = 1
          THEN IF lower(strip(LastHuman(g)[1])) \in
                    {<<"y","e","s">>, <<"y">>, <<"s","u","r","e">>, <<"c","o","r","r","e","c","t">>}
               THEN g'.selected_event_uri = Some(g.matched_events[1][1].uri)
               ELSE /\ g'.flow = "IDLE"
                    /\ g.selected_event_uri = None
                    /\ g'.selected_event_uri = None
                    /\ pc' = "END"
          ELSE IF int(LastHuman(g)[1]) # None
          THEN IF int(LastHuman(g)[1])[1] \in 1..Len(g.matched_events[1])
               THEN g'.selected_event_uri =
                       Some(g.matched_events[1][int(LastHuman(g)[1])[1]].uri)
               ELSE g' = [g EXCEPT !.messages = Append(@, AIMessage(
                            <<"choose a number between 1 and", str(Len(g.matched_events[1]))>>))]
          ELSE g' = [g EXCEPT !.messages = Append(@, AIMessage(
                       <<"reply with a number", str(Len(g.matched_events[1]))>>))]]_vars

\* select_event has answered "yes" with two candidates by asking for a number,
\* and nothing is selected.
C20_Witness ==
    /\ LastRan = "select_event"
    /\ pc = "END"
    /\ LastHuman(g) = Some(<<"y","e","s">>)
    /\ g.matched_events = Some(<<Event1, Event2>>)
    /\ g.messages[Len(g.messages)] = AIMessage(<<"reply with a number", "2">>)
    /\ g.flow = "CANCEL"
    /\ g.selected_event_uri = None

\* C21: the edge out of the entry node follows the routing table on the state
\* the entry node returns: with flow = CANCEL it leads to confirm_action when
\* selected_event_uri is set, else to select_event when matched_events is set,
\* else to lookup_events; with flow = RESCHEDULE it leads to
\* booking_collect_identity when selected_event_uri is set, else to
\* select_event when matched_events is set, else to lookup_events; and
\* confirm_action is never entered with flow = RESCHEDULE.
C21_EntryRoutingTable ==
    [][/\ pc = "check_existing_flow" =>
             /\ g'.flow = "CANCEL" =>
                   pc' = IF Truthy(g'.selected_event_uri) THEN "confirm_action"
                         ELSE IF Truthy(g'.matched_events) THEN "select_event"
                         ELSE "lookup_events"
             /\ g'.flow = "RESCHEDULE" =>
                   pc' = IF Truthy(g'.selected_event_uri) THEN "booking_collect_identity"
                         ELSE IF Truthy(g'.matched_events) THEN "select_event"
                         ELSE "lookup_events"
       /\ pc' = "confirm_action" => g'.flow # "RESCHEDULE"]_vars

\* The entry node has handed a reschedule with a selected appointment over to
\* booking_collect_identity.
C21_Witness ==
    /\ ran = <<"check_existing_flow">>
    /\ pc = "booking_collect_identity"
    /\ g.flow = "RESCHEDULE"
    /\ g.selected_event_uri = Some(Event1.uri)
    /\ g.matched_events = Some(<<Event1>>)

\* C22: the edge out of booking_collect_identity is defined for every
\* combination of the fields and follows one priority: selected_slot set leads
\* to booking_create, even with the identity missing; else a missing identity
\* leads to ask_for_name_email; else slots shown lead to parse_slot_selection;
\* else a preference asked for and not parsed leads to parse_time_preference;
\* else a preference present leads to booking_check_availability; else the
\* edge leads to ask_for_time_preference.  ask_for_name_email is chosen only
\* when user_name or user_email is missing.
C22_IdentityCheckPriority ==
    [][(pc = "booking_collect_identity" /\ pc' # "raised") =>
          LET Priority(s) ==
                 IF s.selected_slot # None THEN "booking_create"
                 ELSE IF ~(Truthy(s.user_name) /\ Truthy(s.user_email))
                 THEN "ask_for_name_email"
                 ELSE IF s.available_slots # None THEN "parse_slot_selection"
                 ELSE IF s.asked_for_preference /\ s.time_preference = None
                 THEN "parse_time_preference"
                 ELSE IF s.time_preference # None THEN "booking_check_availability"
                 ELSE "ask_for_time_preference"
              Variant(name, email, asked, preference, slots, slot) ==
                 [g' EXCEPT !.user_name = name, !.user_email = email,
                            !.asked_for_preference = asked,
                            !.time_preference = preference,
                            !.available_slots = slots, !.selected_slot = slot]
          IN  /\ pc' = Priority(g')
              /\ pc' = "ask_for_name_email" =>
                    ~(Truthy(g'.user_name) /\ Truthy(g'.user_email))
              /\ \A name \in {None, Some(<<>>), Some(<<"J","a","n","e"," ","D","o","e">>)},
                    email \in {None, Some(<<"j","a","n","e","@","x",".","c","o","m">>)},
                    asked \in BOOLEAN,
                    preference \in {None, Some(<<"a","n","y">>)},
                    slots \in {None, Some(<<>>), Some(OfferedSlots)},
                    slot \in {None, Some(OfferedSlots[1].start_time)} :
                    route_after_identity_check(
                        Variant(name, email, asked, preference, slots, slot)) =
                    Priority(Variant(name, email, asked, preference, slots, slot))]_vars

\* booking_collect_identity has found no identity and, a slot being selected,
\* booking_create is next.
C22_Witness ==
    /\ ran = <<"check_existing_flow", "booking_collect_identity">>
    /\ pc = "booking_create"
    /\ g.selected_slot # None
    /\ g.user_name = None
    /\ g.user_email = None

\* C23: whenever a node sets error, the edge out of it leads to
\* tool_error_handler and the node has appended no message of its own; and no
\* node ends a turn with error set.
C23_ErrorDivertsToHandler ==
    [][/\ (/\ pc \notin {"idle", "END", "raised", "exited"}
           /\ ~Truthy(g.error)
           /\ Truthy(g'.error)) =>
              /\ pc' = "tool_error_handler"
              /\ g'.messages = g.messages
       /\ pc' = "END" => ~Truthy(g'.error)]_vars

\* C24: no failure of a collaborator (the classification, extraction and
\* generation service, the scheduling service, the retrieval service) aborts a
\* turn: the graph never leaves a node that calls one by raising.
C24_NoTurnAborted ==
    pc = "raised" =>
        LastRan \notin {"router", "booking_collect_identity", "booking_check_availability",
                        "booking_create", "lookup_events", "confirm_action", "handle_faq",
                        "respond_to_user"}

\* C25: whatever non-empty list the scheduling service offers, for a
\* preference other than "any" booking_check_availability shows the exact
\* bucket if it is not empty, else the fallback bucket if it is not empty, else
\* the offered list, and for "any" the offered list; available_slots is the
\* first at most 10 entries of that list in their order, so it is not empty,
\* has at most 10 entries and holds offered slots only.
C25_MatcherPrecedence ==
    (pc = "booking_check_availability" /\ g.time_preference # None) =>
        \A o \in MatcherOutcomes :
            (~o.raise /\ o.slots # <<>>) =>
               \A shown \in {booking_check_availability(g, o).state.available_slots},
                  exact \in {Matches(o.slots, PreferenceParts(g.time_preference[1]), "exact")},
                  fallback \in {Matches(o.slots, PreferenceParts(g.time_preference[1]),
                                        "fallback")} :
                  \A chosen \in {IF g.time_preference[1] = <<"a","n","y">> THEN o.slots
                                 ELSE IF exact # <<>> THEN exact
                                 ELSE IF fallback # <<>> THEN fallback
                                 ELSE o.slots} :
                     /\ shown = Some(SubSeq(chosen, 1,
                                            IF Len(chosen) < 10 THEN Len(chosen) ELSE 10))
                     /\ shown[1] # <<>>
                     /\ Len(shown[1]) <= 10
                     /\ \A i \in 1..Len(shown[1]) : InSeq(o.slots, shown[1][i])

\* For "monday 10" and twelve Monday slots between 9:00 and 9:55 the fallback
\* bucket is shown, cut to its first ten slots.
C25_Witness ==
    /\ LastRan = "booking_check_availability"
    /\ g.time_preference = Some(<<"m","o","n","d","a","y","|","h","o","u","r",":","1","0">>)
    /\ g.available_slots = Some([i \in 1..10 |-> SlotAt(9, 9, 5 * (i - 1))])
    /\ g.messages[Len(g.messages)] = AIMessage(<<"slots", "fallback", "10">>)

\* C26: with a specific hour h requested for Monday, a Monday slot of another
\* hour is placed in the fallback bucket exactly when it lies in the broad
\* period of h (both hours below 12, or both at 12 or above); for every h and
\* every slot hour from 0 to 23.
C26_FallbackBroadPeriod ==
    pc = "booking_check_availability" =>
        \A h \in 0..23 :
            g.time_preference = Some(<<"m","o","n","d","a","y","|","h","o","u","r",":">> \o str(h)) =>
               \A k \in (0..23) \ {h} :
                  (Matches(<<SlotAt(9, k, 0)>>, PreferenceParts(g.time_preference[1]),
                           "fallback") = <<SlotAt(9, k, 0)>>)
                  <=> ((h < 12 /\ k < 12) \/ (h >= 12 /\ k >= 12))

\* C27: a preference parsed from a reply that names no day but a period or an
\* hour matches on every day: the matcher's day set is empty, and whenever an
\* offered slot has an hour that satisfies the period or the hour, those slots,
\* and not the "no match" listing, are shown.
C27_NoDayMatchesEveryDay ==
    (/\ pc = "booking_check_availability"
     /\ LastRan = "parse_time_preference"
     /\ FoundDays(lower(strip(LastHuman(g)[1]))) = <<>>
     /\ g.time_preference # Some(<<"a","n","y">>)) =>
        /\ PreferenceParts(g.time_preference[1]).requested_days = <<>>
        /\ \A o \in MatcherOutcomes :
              (~o.raise /\ o.slots # <<>>) =>
                 \A hour \in {SpecificHour(lower(strip(LastHuman(g)[1])))} :
                 \A period \in {GeneralTime(lower(strip(LastHuman(g)[1])), hour)} :
                 \A hits \in {SelectSeq(o.slots, LAMBDA slot :
                                /\ ParseIso(slot.start_time) # None
                                /\ IF hour # None
                                   THEN ParseIso(slot.start_time)[1].hour = hour[1]
                                   ELSE \/ /\ period = Some(<<"m","o","r","n","i","n","g">>)
                                           /\ ParseIso(slot.start_time)[1].hour \in 6..11
                                        \/ /\ period = Some(<<"a","f","t","e","r","n","o","o","n">>)
                                           /\ ParseIso(slot.start_time)[1].hour \in 12..16
                                        \/ /\ period = Some(<<"e","v","e","n","i","n","g">>)
                                           /\ ParseIso(slot.start_time)[1].hour \in 17..20)} :
                    hits # <<>> =>
                       booking_check_availability(g, o).state.available_slots =
                          Some(SubSeq(hits, 1, IF Len(hits) < 10 THEN Len(hits) ELSE 10))

\* C28: the specific hour the parser takes from the first hour token of a
\* reply (one or two digits, optional minutes, optional am or pm) is a value
\* from 0 to 23: 0 for 12am, 12 for 12pm, H + 12 for H pm with H other than
\* 12, and H for H am or H alone.
C28_HourIs24HourValue ==
    (/\ LastRan = "parse_time_preference"
     /\ FirstTimeMatch(lower(strip(LastHuman(g)[1]))) # None) =>
        \A token \in {FirstTimeMatch(lower(strip(LastHuman(g)[1])))[1]} :
        \A hour \in {SpecificHour(lower(strip(LastHuman(g)[1])))} :
           /\ hour # None
           /\ hour[1] \in 0..23
           /\ hour[1] = IF token.period = <<"p","m">>
                        THEN (IF NumVal(token.hour_str) = 12 THEN 12
                              ELSE NumVal(token.hour_str) + 12)
                        ELSE IF token.period = <<"a","m">> /\ NumVal(token.hour_str) = 12 THEN 0
                        ELSE NumVal(token.hour_str)
           /\ Contains(g.time_preference[1], <<"h","o","u","r",":">>) =>
                 \E h \in 0..23 :
                    Contains(g.time_preference[1] \o <<"|">>, <<"h","o","u","r",":">> \o str(h) \o <<"|">>)

\* C29: the parsed preference never carries both an hour and a period, and the
\* hour wins: whenever a reply without "any", "anytime" or "flexible" holds an
\* hour token, the preference ends with "hour:" and the hour of the first
\* token, hour 0 included, whether or not a day or a period word is there too,
\* and it carries no period.
C29_HourTakesPrecedence ==
    LastRan = "parse_time_preference" =>
        \A parts \in {Split(g.time_preference[1], "|")} :
           /\ ~(/\ \E i \in 1..Len(parts) : StartsWith(parts[i], <<"h","o","u","r",":">>)
                /\ \E i \in 1..Len(parts) :
                      parts[i] \in {<<"m","o","r","n","i","n","g">>, <<"a","f","t","e","r","n","o","o","n">>, <<"e","v","e","n","i","n","g">>})
           /\ (/\ ~ContainsAny(lower(strip(LastHuman(g)[1])),
                               {<<"a","n","y">>, <<"a","n","y","t","i","m","e">>, <<"f","l","e","x","i","b","l","e">>})
               /\ FirstTimeMatch(lower(strip(LastHuman(g)[1]))) # None) =>
                 /\ parts[Len(parts)] =
                       <<"h","o","u","r",":">> \o str(SpecificHour(lower(strip(LastHuman(g)[1])))[1])
                 /\ \A i \in 1..Len(parts) :
                       parts[i] \notin {<<"m","o","r","n","i","n","g">>, <<"a","f","t","e","r","n","o","o","n">>, <<"e","v","e","n","i","n","g">>}

\* C30: parse_time_preference gives the same preference for a reply and for
\* the reply in lower case, and the same days for the reply with its words in
\* the opposite order; it gives "any" for every reply that contains "any",
\* "anytime" or "flexible", whatever else it contains, and "any" when the reply
\* holds no day, no hour token and no period word; and with a user message
\* there it never leaves time_preference null.
C30_ParserInsensitive ==
    (LastRan = "parse_time_preference" /\ LastHuman(g) # None) =>
        \A reply \in {LastHuman(g)[1]} :
        \A words \in {Split(lower(strip(reply)), " ")} :
        \A turned \in {Join([i \in 1..Len(words) |-> words[Len(words) + 1 - i]], <<" ">>)} :
           /\ g.time_preference # None
           /\ g.time_preference[1] # <<>>
           /\ g.time_preference[1] = ParsePreference(lower(reply))
           /\ (/\ FoundDays(lower(strip(reply))) # <<>>
               /\ g.time_preference[1] # <<"a","n","y">>) =>
                 Split(ParsePreference(turned), "|")[1] = Split(g.time_preference[1], "|")[1]
           /\ ContainsAny(lower(strip(reply)), {<<"a","n","y">>, <<"a","n","y","t","i","m","e">>, <<"f","l","e","x","i","b","l","e">>}) =>
                 g.time_preference[1] = <<"a","n","y">>
           /\ (/\ FoundDays(lower(strip(reply))) = <<>>
               /\ FirstTimeMatch(lower(strip(reply))) = None
               /\ ~ContainsAny(lower(strip(reply)),
                               {<<"m","o","r","n","i","n","g">>, <<"a","f","t","e","r","n","o","o","n">>, <<"e","v","e","n","i","n","g">>, <<"a","m">>, <<"p","m">>})) =>
                 g.time_preference[1] = <<"a","n","y">>

\* "Mon or Wed" has been parsed to the days in the order of the week.
C30_Witness ==
    /\ LastRan = "parse_time_preference"
    /\ LastHuman(g) = Some(<<"M","o","n"," ","o","r"," ","W","e","d">>)
    /\ g.time_preference = Some(<<"m","o","n","d","a","y",",","w","e","d","n","e","s","d","a","y">>)

\* C31: messages only grows.  A node leaves the list as it is or appends
\* assistant messages to it; the driver starts a turn by appending exactly one
\* user message to its list and handing that list to the graph; at the end of
\* a turn the driver's new list has its old list as a prefix and the rest are
\* assistant messages; and a turn that raised leaves the driver's list, with
\* the user message, as it is.
C31_MessagesAppendOnly ==
    [][/\ Len(st.messages) <= Len(st'.messages)
       /\ SubSeq(st'.messages, 1, Len(st.messages)) = st.messages
       /\ IF pc = "idle"
          THEN pc' = "check_existing_flow" =>
                  /\ Len(st'.messages) = Len(st.messages) + 1
                  /\ st'.messages[Len(st'.messages)].role = "human"
                  /\ g'.messages = st'.messages
          ELSE IF pc = "END"
          THEN /\ st'.messages = g.messages
               /\ \A i \in (Len(st.messages) + 1)..Len(st'.messages) :
                     st'.messages[i].role = "ai"
          ELSE /\ st'.messages = st.messages
               /\ Len(g.messages) <= Len(g'.messages)
               /\ SubSeq(g'.messages, 1, Len(g.messages)) = g.messages
               /\ \A i \in (Len(g.messages) + 1)..Len(g'.messages) :
                     g'.messages[i].role = "ai"]_vars

\* The driver holds two user messages, each followed by the reply of its turn.
C31_Witness ==
    /\ pc = "idle"
    /\ Len(st.messages) = 4
    /\ st.messages[1].role = "human"
    /\ st.messages[2].role = "ai"
    /\ st.messages[3].role = "human"
    /\ st.messages[4].role = "ai"

\* C32: the state the driver keeps at the end of a turn is, field by field,
\* the state the graph returned for the turn, fields cleared to null included.
C32_DriverKeepsReturnedState ==
    [][pc = "END" => st' = g]_vars
\* C33: the booking scenario.  With every collaborator succeeding (no failed
\* call, the extraction service finding no identity in the opening request,
\* the scheduling service offering its slots), the turns "book an
\* appointment", "Jane Doe jane@x.com", "tuesday morning", "1" end as follows:
\* turn 1 with intent = flow = BOOK and the identity or the preference prompt;
\* turn 2 with the identity captured and the preference prompt issued
\* (asked_for_preference true, time_preference null); turn 3 with the
\* preference parsed and the matching slots shown in the same turn; turn 4
\* with the slot chosen in parse_slot_selection, createAppointment called
\* exactly once with that slot and the identity, a confirmation appended and
\* flow = IDLE.
C33_BookingScenario ==
    LET scenario == <<<<"b","o","o","k"," ","a","n"," ","a","p","p","o","i","n","t","m","e","n","t">>, <<"J","a","n","e"," ","D","o","e"," ","j","a","n","e","@","x",".","c","o","m">>,
                      <<"t","u","e","s","d","a","y"," ","m","o","r","n","i","n","g">>, <<"1">>>>
        humans == SelectSeq(g.messages, LAMBDA m : m.role = "human")
        n == Len(humans)
        last == g.messages[Len(g.messages)]
    IN  (/\ pc = "END"
         /\ faults = 0
         /\ n \in 1..4
         /\ \A i \in 1..n : humans[i].content = scenario[i]
         /\ \A i \in 1..Len(g.messages) :
               g.messages[i].role = "ai" =>
                  g.messages[i].content[1] # "I apologize, but I encountered an issue: "
         /\ n >= 2 => g.messages[2].content = <<"ask_for_name_email", "full name", "email address">>)
        =>
        /\ Len(g.messages) = 2 * n
        /\ last.role = "ai"
        /\ n = 1 => /\ g.intent = "BOOK" /\ g.flow = "BOOK"
                    /\ last.content[1] \in {"ask_for_name_email", "ask_for_time_preference"}
                    /\ calls = <<>>
        /\ n = 2 => /\ g.intent = "BOOK" /\ g.flow = "BOOK"
                    /\ g.user_name = Some(<<"J","a","n","e"," ","D","o","e">>)
                    /\ g.user_email = Some(<<"j","a","n","e","@","x",".","c","o","m">>)
                    /\ g.asked_for_preference
                    /\ g.time_preference = None
                    /\ last.content = <<"ask_for_time_preference">>
                    /\ calls = <<>>
        /\ n = 3 => /\ g.flow = "BOOK"
                    /\ g.time_preference = Some(<<"t","u","e","s","d","a","y","|","m","o","r","n","i","n","g">>)
                    /\ ran = <<"check_existing_flow", "booking_collect_identity",
                               "parse_time_preference", "booking_check_availability">>
                    /\ g.available_slots = Some(<<OfferedSlots[2]>>)
                    /\ last.content = <<"slots", "exact", "1">>
                    /\ calls = <<[op |-> "listAvailableSlots"]>>
        /\ n = 4 => /\ ran = <<"check_existing_flow", "booking_collect_identity",
                               "parse_slot_selection", "booking_create", "confirm_booking">>
                    /\ calls = <<[op |-> "createAppointment",
                                  start_time |-> Some(OfferedSlots[2].start_time),
                                  name |-> Some(<<"J","a","n","e"," ","D","o","e">>),
                                  email |-> Some(<<"j","a","n","e","@","x",".","c","o","m">>)]>>
                    /\ last.content = <<"confirmed">>
                    /\ g.flow = "IDLE"

\* The fourth turn of the booking scenario has ended: the appointment for the
\* Tuesday 10:00 slot was created and the flow is back to IDLE.
C33_Witness ==
    /\ pc = "END"
    /\ faults = 0
    /\ Len(g.messages) = 8
    /\ g.messages[1].content = <<"b","o","o","k"," ","a","n"," ","a","p","p","o","i","n","t","m","e","n","t">>
    /\ g.messages[2].content = <<"ask_for_name_email", "full name", "email address">>
    /\ g.messages[3].content = <<"J","a","n","e"," ","D","o","e"," ","j","a","n","e","@","x",".","c","o","m">>
    /\ g.messages[4].content = <<"ask_for_time_preference">>
    /\ g.messages[5].content = <<"t","u","e","s","d","a","y"," ","m","o","r","n","i","n","g">>
    /\ g.messages[6].content = <<"slots", "exact", "1">>
    /\ g.messages[7].content = <<"1">>
    /\ g.messages[8].content = <<"confirmed">>
    /\ Len(calls) = 1
    /\ calls[1].op = "createAppointment"
    /\ g.flow = "IDLE"
\* C34: the cancel scenario.  From the initial state, with no failed call,
\* the turns "cancel my appointment", "jane@x.com" (for which the scheduling
\* service lists exactly one event), "yes", "yes" end as follows: turn 1 with
\* the e-mail prompt and no scheduling call; turn 2 with the single-candidate
\* Yes/No prompt, matched_events holding the one event and selected_event_uri
\* null; turn 3 with the final confirmation prompt, selected_event_uri set to
\* the event's URI and no cancellation; turn 4 with cancelEvent called exactly
\* once on that URI, confirmed = true and flow = IDLE.
C34_CancelScenario ==
    LET scenario == <<<<"c","a","n","c","e","l"," ","m","y"," ","a","p","p","o","i","n","t","m","e","n","t">>, <<"j","a","n","e","@","x",".","c","o","m">>, <<"y","e","s">>, <<"y","e","s">>>>
        humans == SelectSeq(g.messages, LAMBDA m : m.role = "human")
        n == Len(humans)
        last == g.messages[Len(g.messages)]
    IN  (/\ pc = "END"
         /\ faults = 0
         /\ n \in 1..4
         /\ \A i \in 1..n : humans[i].content = scenario[i]
         /\ n >= 3 => g.messages[4].content = <<"is this the one", "cancel">>)
        =>
        /\ Len(g.messages) = 2 * n
        /\ last.role = "ai"
        /\ n = 1 => /\ g.intent = "CANCEL" /\ g.flow = "CANCEL"
                    /\ last.content = <<"please provide your email address", "cancel">>
                    /\ calls = <<>>
        /\ n = 2 => /\ g.flow = "CANCEL"
                    /\ calls = <<[op |-> "listScheduledEvents", email |-> Some(<<"j","a","n","e","@","x",".","c","o","m">>)]>>
                    /\ (last.content = <<"is this the one", "cancel">>)
                          <=> (g.matched_events = Some(<<Event1>>))
                    /\ g.matched_events = Some(<<Event1>>) => g.selected_event_uri = None
                    /\ g.matched_events \in {None, Some(<<Event1>>), Some(<<Event1, Event2>>)}
        /\ n = 3 => /\ g.flow = "CANCEL"
                    /\ last.content = <<"are you sure you want to cancel">>
                    /\ g.matched_events = Some(<<Event1>>)
                    /\ g.selected_event_uri = Some(Event1.uri)
                    /\ calls = <<>>
                    /\ ~g.confirmed
        /\ n = 4 => /\ calls = <<[op |-> "cancelEvent", uri |-> Some(Event1.uri)]>>
                    /\ ran = <<"check_existing_flow", "confirm_action">>
                    /\ last.content = <<"successfully canceled">>
                    /\ g.confirmed
                    /\ g.flow = "IDLE"

\* The fourth turn of the cancel scenario has ended: the one event found for
\* the e-mail was cancelled.
C34_Witness ==
    /\ pc = "END"
    /\ faults = 0
    /\ Len(g.messages) = 8
    /\ g.messages[1].content = <<"c","a","n","c","e","l"," ","m","y"," ","a","p","p","o","i","n","t","m","e","n","t">>
    /\ g.messages[2].content = <<"please provide your email address", "cancel">>
    /\ g.messages[3].content = <<"j","a","n","e","@","x",".","c","o","m">>
    /\ g.messages[4].content = <<"is this the one", "cancel">>
    /\ g.messages[5].content = <<"y","e","s">>
    /\ g.messages[6].content = <<"are you sure you want to cancel">>
    /\ g.messages[7].content = <<"y","e","s">>
    /\ g.messages[8].content = <<"successfully canceled">>
    /\ calls = <<[op |-> "cancelEvent", uri |-> Some(Event1.uri)]>>
    /\ g.confirmed
    /\ g.flow = "IDLE"
\* C35: at the end of every turn intent and flow are coherent, in the state
\* the graph returns and in the state the driver keeps: flow # IDLE implies
\* intent = flow, and intent in {BOOK, CANCEL, RESCHEDULE} implies
\* flow = intent.  Consequently, when route_from_entry runs with flow = IDLE
\* the intent is not an active one (its three IDLE branches on intent are not
\* taken), and router runs in exactly the turns that start with flow = IDLE.
C35_IntentFlowCoherent ==
    /\ pc = "END" =>
          /\ g.flow # "IDLE" => g.intent = g.flow
          /\ g.intent \in {"BOOK", "CANCEL", "RESCHEDULE"} => g.flow = g.intent
    /\ pc = "idle" =>
          /\ st.flow # "IDLE" => st.intent = st.flow
          /\ st.intent \in {"BOOK", "CANCEL", "RESCHEDULE"} => st.flow = st.intent
    /\ (pc \notin {"idle", "raised", "exited"} /\ ran = <<"check_existing_flow">>) =>
          /\ g.flow = "IDLE" => g.intent \notin {"BOOK", "CANCEL", "RESCHEDULE"}
          /\ (pc = "router") <=> (st.flow = "IDLE")
    /\ (pc \notin {"idle", "raised", "exited"} /\ Len(ran) >= 2) =>
          /\ (ran[2] = "router") <=> (st.flow = "IDLE")
          /\ \A i \in 3..Len(ran) : ran[i] # "router"

\* A turn that started in the BOOK flow has ended in it without running
\* router, after an earlier turn in which router classified the request.
C35_Witness ==
    /\ pc = "END"
    /\ NumHuman(g) >= 2
    /\ st.flow = "BOOK"
    /\ g.flow = "BOOK"
    /\ g.intent = "BOOK"
    /\ Len(ran) >= 2
    /\ ran[2] = "booking_collect_identity"
\* C36: every turn terminates at END.  No node runs more than once in a turn,
\* so the chain of nodes is bounded (at most 7 of the 16 nodes run), and the
\* graph does not stop anywhere but at END: no node leaves the chain by
\* raising, whatever the collaborators do.
C36_TurnReachesEnd ==
    /\ \A i, j \in 1..Len(ran) : ran[i] = ran[j] => i = j
    /\ Len(ran) <= 7
    /\ pc # "raised"

\* C37: createAppointment is called only in a turn whose user message is a
\* valid slot number for the slot list shown when the turn starts, and with
\* the start time of that slot.
C37_CreateOnlyOnSlotNumber ==
    (pc \notin {"idle", "exited"}) =>
       \A i \in 1..Len(calls) :
          calls[i].op = "createAppointment" =>
             /\ LastHuman(g) # None
             /\ Truthy(st.available_slots)
             /\ \A slot_num \in {int(strip(LastHuman(g)[1]))} :
                   /\ slot_num # None
                   /\ 1 <= slot_num[1]
                   /\ slot_num[1] <= Len(st.available_slots[1])
                   /\ calls[i].start_time
                         = Some(st.available_slots[1][slot_num[1]].start_time)
\* C38: whenever confirm_action calls cancelEvent, the URI it cancels is the
\* URI of an event of matched_events, the list the most recent lookup of the
\* flow returned (and from which select_event lets the user choose).
C38_CancelsListedEvent ==
    (pc \notin {"idle", "exited"} /\ LastRan = "confirm_action") =>
       \A i \in 1..Len(calls) :
          calls[i].op = "cancelEvent" =>
             /\ Truthy(st.matched_events)
             /\ \E k \in 1..Len(st.matched_events[1]) :
                   calls[i].uri = Some(st.matched_events[1][k].uri)
\* C39: once select_event has stored selected_event_uri in a RESCHEDULE flow
\* (it then asks when to reschedule), a turn that starts with the URI stored
\* and in which createAppointment succeeds also attempts, after the create and
\* in the same booking_create, a cancelEvent on that URI.
C39_RescheduleCancelsOld ==
    (/\ pc \notin {"idle", "exited"}
     /\ \E k \in 1..Len(g.messages) :
           g.messages[k] = AIMessage(<<"when would you like to reschedule">>)
     /\ Truthy(st.selected_event_uri)
     /\ LastRan \in {"booking_create", "confirm_booking"}
     /\ g.messages[Len(g.messages)].role = "ai"
     /\ g.messages[Len(g.messages)].content[1] = "confirmed")
    =>
    \E i, j \in 1..Len(calls) :
       /\ i < j
       /\ calls[i].op = "createAppointment"
       /\ calls[j] = [op |-> "cancelEvent", uri |-> st.selected_event_uri]
\* C40: the router of src/nodes/router.py and the router wired into the graph
\* (src/graph.py) return the same intent and the same flow, and so lead to the
\* same next node, for every state, latest user message and answer of the
\* classification service.
C40_RouterCopiesAgree ==
    pc = "router" =>
       \A response \in ClassifyResponses :
          /\ nodes_router(g, response).intent = router(g, response).intent
          /\ nodes_router(g, response).flow = router(g, response).flow
          /\ route_after_router(nodes_router(g, response))
                = route_after_router(router(g, response))
====
